---- MODULE Spec2Model ----
(***************************************************************************)
(* Model of the condition-polling and readiness orchestration engine of    *)
(* mcp-chromium-cdp:                                                       *)
(*   - ChromeController.ensureConnected / connect (connection lifecycle)   *)
(*   - WaitService.waitFor (condition wait orchestrator)                   *)
(*   - ElementReadinessService.waitForReady / checkElementState            *)
(*   - ChromeController.click / type (pointer and key dispatch)           *)
(*                                                                         *)
(* JavaScript runs one callback at a time: every action below is the code  *)
(* that runs between two suspension points (await) of one async call.      *)
(* The wall clock advances only at suspension points (driver calls and     *)
(* timers); the synchronous code between them takes no time.               *)
(***************************************************************************)
EXTENDS Integers, Sequences, FiniteSets, TLC

(***************************************************************************)
(* Bounds of the model                                                     *)
(***************************************************************************)
NumCallers == 2
MaxBodyLen == 3
MaxFindLen == 2
MaxTextLen == 2
MaxDisconnects == 1

\* poll-interval sleeps that end on time; any further one ends late
MaxPolls == 2
\* driver calls of one waitFor call that take a poll interval's time to
\* resolve; the others resolve at once
MaxSlowCalls == 1
\* waitFor calls that may overlap on one connection
NumWaiters == 2
\* poll intervals the clock of the overlapping calls may advance
MaxTicks == 3

(***************************************************************************)
(* Program constants                                                       *)
(***************************************************************************)
DEFAULT_WAIT_TIMEOUT_MS == 5000
MAX_WAIT_TIMEOUT_MS == 30000
WAIT_CHECK_INTERVAL_MS == 100
DEFAULT_TIMEOUT_MS == 5000
STABILITY_CHECK_MS == 100
POLL_INTERVAL_MS == 50
\* `< 1` of the stability comparison, in the unit of the coordinates (0.1 px)
STABILITY_TOLERANCE == 10
SETTLE_DELAY_MS == 50
MAX_SELECTOR_LENGTH == 1000
MIN_TIMEOUT_MS == 0
MAX_TIMEOUT_MS == 30000
MAX_RECONNECTION_RETRIES == 5
RECONNECTION_RETRY_DELAY_MS == 2000

maxRetries == MAX_RECONNECTION_RETRIES
retryDelay == RECONNECTION_RETRY_DELAY_MS

NoHandle == 0
\* handles are opaque: a new one gets an id no field refers to any more
Handles == 1..4
Callers == 1..NumCallers
Waiters == 1..NumWaiters

VARIABLES
  \* ---- ChromeController fields
  client,        \* this.client: NoHandle (null) or the id of a CDP handle
  svc,           \* handle the service instances are bound to (NoHandle = null)
  chrome,        \* this.chrome: a launched browser process exists
  reconnecting,  \* this.reconnecting
  \* ---- driver side
  orphans,       \* open handles this.client no longer refers to
  \* ---- one ensureConnected() call per caller
  pc,            \* position of the call
  attempt,       \* loop variable of the retry loop (0 before the loop)
  \* ---- observation (history) variables
  connects,      \* connect() invocations of the call
  complete,      \* handle whose connect() ran to completion last
  backoffMs,     \* total backoff slept by the caller's retry loop
  waited,        \* the caller found a reconnect in flight and slept
  via,           \* how the call ended
  entryNull,     \* this.client was null when the call was made
  entryFlag,     \* this.reconnecting when the call was made
  fresh,         \* a CDP() handle was created since the call was made
  retInConnect,  \* the call returned while a connect() was in progress
  discSince,     \* a disconnect event was delivered since the call was made
  disconnects,   \* disconnect events so far
  staleNulled    \* a disconnect event of a handle that had been replaced
                 \* made a non-null this.client null

VARIABLES
  \* ---- driver side of the Network domain
  netEnabled,    \* the Network domain is enabled on the connection
  netListeners,  \* requestWillBeSent/loadingFinished callbacks registered
  \* ---- one ChromeController.waitFor() call
  wpc,           \* position of the call
  opts,          \* its options argument
  now,           \* Date.now()
  startTime,     \* const startTime
  timeout,       \* const timeout
  conditions,    \* const conditions
  lastNetworkActivity,
  subscribed,    \* the call registered its network callbacks
  actualState,   \* the object getActualState() builds
  verdict,       \* success value of the return statement being executed
  completion,    \* how the try block completed: "return" or "throw"
  result,        \* the value the call returned (<<>> before and on throw)
  \* ---- observation (history) variables
  enableCalls,   \* Network.enable() invocations of the call
  disableCalls,  \* Network.disable() invocations of the call
  sleeps,        \* poll-interval sleeps of the call
  slowCalls,     \* driver calls of the call that were slow
  driverFailed,  \* a driver call of the call rejected or reported an exception
  deadlineReached, \* the poll loop ended because its condition was false
  carried,       \* condition kinds whose flag was true before the current
                 \* poll iteration began (they are not probed in it)
  subscribedAt   \* time the callbacks were registered (<<>> if not)

waitVars == <<netEnabled, netListeners, wpc, opts, now, startTime, timeout,
              conditions, lastNetworkActivity, subscribed, actualState,
              verdict, completion, result, enableCalls, disableCalls, sleeps,
              slowCalls, driverFailed, deadlineReached, carried,
              subscribedAt>>

VARIABLES
  \* ---- one ElementReadinessService.waitForReady() call
  rpc,           \* position of the call
  rsite,         \* which checkElementState call is running
  rtimeout,      \* the timeout parameter
  rstart,        \* const startTime
  rnow,          \* Date.now()
  probe,         \* value of the first probe of checkElementState
  rstate,        \* ElementState the last checkElementState returned
  rresult,       \* the ReadinessResult returned (<<>> before)
  \* ---- observation (history) variables
  rchecks,       \* checkElementState invocations of the call
  rsleeps,       \* poll-interval sleeps of the call
  rslow,         \* driver calls of the call that were slow
  rlate,         \* a poll timer of the call fired late
  rfault,        \* a driver call of the checkElementState that returned last
                 \* rejected or reported an exception
  rsecond,       \* the checkElementState that returned last observed a
                 \* second bounding box
  rsample        \* that second bounding box (<<>> if none)

readyVars == <<rpc, rsite, rtimeout, rstart, rnow, probe, rstate, rresult,
               rchecks, rsleeps, rslow, rlate, rfault, rsecond, rsample>>

VARIABLES
  \* ---- waitFor calls with networkIdle that overlap on one connection
  oNet,          \* the Network domain is enabled on the connection
  oNow,          \* Date.now()
  lastRequest,   \* time of the last network request of the page (<<>>: none)
  opc,           \* position of each call
  oOpts,         \* its options argument
  oStart,        \* const startTime
  oTimeout,      \* const timeout
  oLast,         \* let lastNetworkActivity
  oConds,        \* const conditions
  oSub,          \* the call registered its network callbacks
  oWake,         \* time its poll timer is due
  oVerdict,      \* success value of its return statement
  oCompletion,   \* how its try block completed
  \* ---- observation (history) variables
  oMissed,       \* time of the last request that was not reported to the
                 \* registered callbacks of the call, the domain being off
                 \* (<<>>: none)
  falseIdle      \* the call set its networkIdle flag although such a
                 \* request had occurred within its idle window

overlapVars == <<oNet, oNow, lastRequest, opc, oOpts, oStart, oTimeout, oLast,
                 oConds, oSub, oWake, oVerdict, oCompletion, oMissed,
                 falseIdle>>

connVars == <<client, svc, chrome, reconnecting, orphans, pc,
              attempt, connects, complete, backoffMs, waited, via, entryNull,
              entryFlag, fresh, retInConnect,
              discSince, disconnects, staleNulled>>

VARIABLES
  apc,           \* click/type: the await the call is suspended at
  aop,           \* "click" or "type" ("none" before the call)
  aSel,          \* the selector argument
  aOpts,         \* click: the options argument
  aText,         \* type: the text argument
  aNode,         \* nodeId DOM.querySelector resolved to (<<>> before)
  aBox,          \* click: the content box DOM.getBoxModel reported
  ax,            \* click: const x
  ay,            \* click: const y
  aReadiness,    \* const readiness (<<>> before waitForReady returned)
  aKey,          \* type: position of `char` in the text
  aError,        \* the structured error thrown (<<>> if none)
  \* ---- observation (history) variable
  aLog           \* requests handed to the driver, in issue order

actVars == <<apc, aop, aSel, aOpts, aText, aNode, aBox, ax, ay, aReadiness,
             aKey, aError, aLog>>

VARIABLES
  \* ---- one run of the text probe of waitFor in the page
  spc,           \* "idle", "evaluate" (script sent) or "done"
  bodyText,      \* document.body.innerText, a sequence of characters
  textToFind,    \* the argument of the script, a sequence of characters
  scanFound      \* result.result.value (<<>> before the script ran)

scanVars == <<spc, bodyText, textToFind, scanFound>>

vars == <<connVars, waitVars, readyVars, overlapVars, actVars, scanVars>>

ConnectPcs == {"list", "launch", "open", "page", "runtime", "network", "dom"}
\* positions of a call that has neither returned nor thrown
InCall == ConnectPcs \cup {"waiting", "backoff"}

(***************************************************************************)
(* Optional values: undefined is <<>>, a present value v is <<v>>          *)
(***************************************************************************)
Undefined == <<>>
Some(v) == <<v>>
Defined(x) == x # Undefined
Val(x) == x[1]

\* JavaScript truthiness of an optional string / an optional number
TruthyStr(x) == Defined(x) /\ Val(x) # ""
TruthySeq(x) == Defined(x) /\ Val(x) # <<>>
TruthyNum(x) == Defined(x) /\ Val(x) # 0

Min(a, b) == IF a <= b THEN a ELSE b
Max(a, b) == IF a >= b THEN a ELSE b

\* selectors are sequences of characters
SelectorInputs == {Undefined, Some(<<>>), Some(<<"#", "a">>), Some(<<"a", "[">>)}
TextInputs == {Undefined, Some(""), Some("Saved")}
UrlInputs == {Undefined, Some("done"), Some("(")}
IdleInputs == {Undefined, Some(0), Some(200)}
TimeoutInputs == {Undefined, Some(0), Some(200), Some(0 - 1), Some(30001)}

WaitOptions == [element : SelectorInputs, text : TextInputs, url : UrlInputs,
                networkIdle : IdleInputs, timeout : TimeoutInputs]

NoOptions == [element |-> Undefined, text |-> Undefined, url |-> Undefined,
              networkIdle |-> Undefined, timeout |-> Undefined]
NoConditions == [element |-> Undefined, text |-> Undefined, url |-> Undefined,
                 networkIdle |-> Undefined]
NoActualState == [currentUrl |-> Undefined, elementFound |-> FALSE,
                  textFound |-> FALSE]

WaitInit ==
  /\ netEnabled = TRUE
  /\ netListeners = 0
  /\ wpc = "idle"
  /\ opts = NoOptions
  /\ now = 0
  /\ startTime = 0
  /\ timeout = 0
  /\ conditions = NoConditions
  /\ lastNetworkActivity = 0
  /\ subscribed = FALSE
  /\ actualState = NoActualState
  /\ verdict = FALSE
  /\ completion = "none"
  /\ result = Undefined
  /\ enableCalls = 0
  /\ disableCalls = 0
  /\ sleeps = 0
  /\ slowCalls = 0
  /\ driverFailed = FALSE
  /\ deadlineReached = FALSE
  /\ carried = {}
  /\ subscribedAt = Undefined

\* bounding boxes, coordinates in tenths of a pixel
Box(x, y, w, h) == [x |-> x, y |-> y, width |-> w, height |-> h]
Boxes == {Box(1000, 2000, 500, 300), Box(1004, 2002, 500, 300),
          Box(1010, 2000, 500, 300), Box(1060, 2000, 500, 300),
          Box(1000, 2000, 0, 300)}

\* what the page holds for the selector when a script looks at it
PageElements == [box : Boxes, hidden : BOOLEAN, disabled : BOOLEAN]

ReadyTimeouts == {Undefined, Some(0), Some(100), Some(200)}

NotFoundState == [visible |-> FALSE, enabled |-> FALSE, stable |-> FALSE,
                  boundingBox |-> Undefined]
NoProbe == [visible |-> FALSE, enabled |-> FALSE,
            boundingBox |-> Box(0, 0, 0, 0)]

ReadyInit ==
  /\ rpc = "idle"
  /\ rsite = "none"
  /\ rtimeout = 0
  /\ rstart = 0
  /\ rnow = 0
  /\ probe = NoProbe
  /\ rstate = NotFoundState
  /\ rresult = Undefined
  /\ rchecks = 0
  /\ rsleeps = 0
  /\ rslow = 0
  /\ rlate = FALSE
  /\ rfault = FALSE
  /\ rsecond = FALSE
  /\ rsample = Undefined

OverlapInit ==
  /\ oNet = TRUE
  /\ oNow = 0
  /\ lastRequest = Undefined
  /\ opc = [w \in Waiters |-> "idle"]
  /\ oOpts = [w \in Waiters |-> NoOptions]
  /\ oStart = [w \in Waiters |-> 0]
  /\ oTimeout = [w \in Waiters |-> 0]
  /\ oLast = [w \in Waiters |-> 0]
  /\ oConds = [w \in Waiters |-> NoConditions]
  /\ oSub = [w \in Waiters |-> FALSE]
  /\ oWake = [w \in Waiters |-> 0]
  /\ oVerdict = [w \in Waiters |-> FALSE]
  /\ oCompletion = [w \in Waiters |-> "none"]
  /\ oMissed = [w \in Waiters |-> Undefined]
  /\ falseIdle = [w \in Waiters |-> FALSE]

ConnInit ==
  /\ client = NoHandle
  /\ svc = NoHandle
  /\ chrome = FALSE
  /\ reconnecting = FALSE
  /\ orphans = 0
  /\ pc = [c \in Callers |-> "idle"]
  /\ attempt = [c \in Callers |-> 0]
  /\ connects = [c \in Callers |-> 0]
  /\ complete = NoHandle
  /\ backoffMs = [c \in Callers |-> 0]
  /\ waited = [c \in Callers |-> FALSE]
  /\ via = [c \in Callers |-> "none"]
  /\ entryNull = [c \in Callers |-> FALSE]
  /\ entryFlag = [c \in Callers |-> FALSE]
  /\ fresh = [c \in Callers |-> FALSE]
  /\ retInConnect = [c \in Callers |-> FALSE]
  /\ discSince = [c \in Callers |-> FALSE]
  /\ disconnects = 0
  /\ staleNulled = FALSE

ActInit ==
  /\ apc = "idle"
  /\ aop = "none"
  /\ aSel = <<>>
  /\ aOpts = Undefined
  /\ aText = <<>>
  /\ aNode = Undefined
  /\ aBox = Undefined
  /\ ax = 0
  /\ ay = 0
  /\ aReadiness = Undefined
  /\ aKey = 0
  /\ aError = Undefined
  /\ aLog = <<>>

ScanInit ==
  /\ spc = "idle"
  /\ bodyText = <<>>
  /\ textToFind = <<>>
  /\ scanFound = Undefined

Init ==
  ConnInit /\ WaitInit /\ ReadyInit /\ OverlapInit /\ ActInit /\ ScanInit

(***************************************************************************)
(* ChromeController.ensureConnected and connect                            *)
(***************************************************************************)

\* some connect() is between two of its awaits
ConnectInProgress == \E d \in Callers : pc[d] \in ConnectPcs

\* ensureConnected returns normally
Return(c, how) ==
  /\ pc' = [pc EXCEPT ![c] = "returned"]
  /\ via' = [via EXCEPT ![c] = how]
  /\ retInConnect' = [retInConnect EXCEPT
                        ![c] = \E d \in Callers \ {c} : pc[d] \in ConnectPcs]

\* `if (this.reconnecting)`: a reconnection is in flight
ReconnectInFlight_Mut == FALSE
ReconnectInFlight == reconnecting

\* `if (attempt < this.maxRetries)`: sleep before the next attempt
ShouldBackoff_Mut(a) == a <= maxRetries
ShouldBackoff(a) == a < maxRetries

\* value of this.reconnecting after the retry loop ran out of attempts
FlagAfterExhaustion_Mut == TRUE
FlagAfterExhaustion == FALSE

\* the 'disconnect' callback registered by connect(): new value of this.client
onDisconnect_Mut(cl) == cl
onDisconnect(cl) == NoHandle

\* `attempt <= this.maxRetries`: condition of the retry loop
LoopContinues(a) == a <= maxRetries

\* connect() is invoked: it runs up to its first await, CDP.List()
InvokeConnect(c) ==
  /\ pc' = [pc EXCEPT ![c] = "list"]
  /\ connects' = [connects EXCEPT ![c] = @ + 1]

\* `attempt++` and the loop condition: another connect(), or the flag is
\* cleared and the failed-to-reconnect error is thrown
NextAttempt(c) ==
  /\ attempt' = [attempt EXCEPT ![c] = @ + 1]
  /\ IF LoopContinues(attempt[c] + 1)
     THEN /\ InvokeConnect(c)
          /\ UNCHANGED <<reconnecting, via>>
     ELSE /\ reconnecting' = FlagAfterExhaustion
          /\ pc' = [pc EXCEPT ![c] = "thrown"]
          /\ via' = [via EXCEPT ![c] = "exhausted"]
          /\ UNCHANGED connects

\* connect() threw: the catch block of the retry loop
ConnectFailed(c) ==
  IF ShouldBackoff(attempt[c])
  THEN /\ pc' = [pc EXCEPT ![c] = "backoff"]
       /\ UNCHANGED <<reconnecting, via, attempt, connects>>
  ELSE NextAttempt(c)

\* the synchronous head of ensureConnected(), up to its first await
EnsureCheck(c) ==
  IF client # NoHandle /\ svc # NoHandle
  THEN /\ Return(c, "connected")
       /\ UNCHANGED <<client, svc, chrome, reconnecting, orphans,
                      attempt, connects, complete, backoffMs, waited,
                      discSince>>
  ELSE IF client # NoHandle /\ svc = NoHandle
  THEN /\ svc' = client                       \* initializeServices()
       /\ Return(c, "init")
       /\ UNCHANGED <<client, chrome, reconnecting, orphans,
                      attempt, connects, complete, backoffMs, waited,
                      discSince>>
  ELSE IF ReconnectInFlight
  THEN /\ pc' = [pc EXCEPT ![c] = "waiting"]
       /\ waited' = [waited EXCEPT ![c] = TRUE]
       /\ UNCHANGED <<client, svc, chrome, reconnecting, orphans,
                      attempt, connects, complete, backoffMs, via,
                      retInConnect, discSince>>
  ELSE /\ reconnecting' = TRUE
       /\ attempt' = [attempt EXCEPT ![c] = 1]
       /\ InvokeConnect(c)
       /\ UNCHANGED <<client, svc, chrome, orphans, complete,
                      backoffMs, waited, via, retInConnect, discSince>>

\* a caller invokes ensureConnected()
EnsureConnected(c) ==
  /\ pc[c] = "idle"
  /\ entryNull' = [entryNull EXCEPT ![c] = (client = NoHandle)]
  /\ entryFlag' = [entryFlag EXCEPT ![c] = reconnecting]
  /\ EnsureCheck(c)
  /\ UNCHANGED <<fresh, disconnects>>
  /\ UNCHANGED staleNulled
  /\ UNCHANGED <<waitVars, readyVars, overlapVars, actVars, scanVars>>

\* the wait for the ongoing reconnection is over: `return this.ensureConnected()`
EnsureConnectedRecheck(c) ==
  /\ pc[c] = "waiting"
  /\ EnsureCheck(c)
  /\ UNCHANGED <<entryNull, entryFlag, fresh, disconnects>>
  /\ UNCHANGED staleNulled
  /\ UNCHANGED <<waitVars, readyVars, overlapVars, actVars, scanVars>>

\* `const targets = await CDP.List()`
ConnectList(c) ==
  /\ pc[c] = "list"
  /\ \E r \in {"targets", "none", "fail"} :
       CASE r = "targets" -> /\ pc' = [pc EXCEPT ![c] = "open"]
                             /\ UNCHANGED <<reconnecting, via, attempt, connects>>
         [] r = "none"    -> /\ pc' = [pc EXCEPT ![c] = "launch"]
                             /\ UNCHANGED <<reconnecting, via, attempt, connects>>
         [] r = "fail"    -> ConnectFailed(c)
  /\ UNCHANGED <<client, svc, chrome, orphans, complete, backoffMs,
                 waited, entryNull, entryFlag, fresh, retInConnect,
                 discSince, disconnects>>
  /\ UNCHANGED staleNulled
  /\ UNCHANGED <<waitVars, readyVars, overlapVars, actVars, scanVars>>

\* `this.chrome = await chromeLauncher.launch(launchOptions)`
ConnectLaunch(c) ==
  /\ pc[c] = "launch"
  /\ \E ok \in BOOLEAN :
       IF ok THEN /\ chrome' = TRUE
                  /\ pc' = [pc EXCEPT ![c] = "open"]
                  /\ UNCHANGED <<reconnecting, via, attempt, connects>>
             ELSE /\ ConnectFailed(c)
                  /\ UNCHANGED chrome
  /\ UNCHANGED <<client, svc, orphans, complete, backoffMs,
                 waited, entryNull, entryFlag, fresh, retInConnect,
                 discSince, disconnects>>
  /\ UNCHANGED staleNulled
  /\ UNCHANGED <<waitVars, readyVars, overlapVars, actVars, scanVars>>

\* one more open handle is left behind; no more of them are counted than
\* disconnect events can still be delivered
Orphaned(n) == IF n < MaxDisconnects - disconnects THEN n + 1 ELSE n

\* the handle a successful CDP() call returns
NewHandle == CHOOSE h \in Handles : h \notin {client, svc, complete}

\* `this.client = await CDP(...)`, then the disconnect handler is registered
\* and Page.enable() is issued
ConnectOpen(c) ==
  /\ pc[c] = "open"
  /\ \E ok \in BOOLEAN :
       IF ok THEN /\ client' = NewHandle
                  /\ fresh' = [d \in Callers |->
                               IF pc[d] \in InCall THEN TRUE ELSE fresh[d]]
                  /\ orphans' = IF client # NoHandle THEN Orphaned(orphans)
                                                     ELSE orphans
                  /\ pc' = [pc EXCEPT ![c] = "page"]
                  /\ UNCHANGED <<reconnecting, via, attempt, connects>>
             ELSE /\ ConnectFailed(c)
                  /\ UNCHANGED <<client, orphans, fresh>>
  /\ UNCHANGED <<svc, chrome, complete, backoffMs, waited, entryNull,
                 entryFlag, retInConnect,
                 discSince, disconnects>>
  /\ UNCHANGED staleNulled
  /\ UNCHANGED <<waitVars, readyVars, overlapVars, actVars, scanVars>>

NextDomain(p) ==
  CASE p = "page" -> "runtime"
    [] p = "runtime" -> "network"
    [] p = "network" -> "dom"

\* `await this.client.Page.enable()` ... `await this.client.Network.enable()`:
\* the next statement dereferences this.client again
ConnectEnable(c) ==
  /\ pc[c] \in {"page", "runtime", "network"}
  /\ \E ok \in BOOLEAN :
       IF ok /\ client # NoHandle
       THEN /\ pc' = [pc EXCEPT ![c] = NextDomain(pc[c])]
            /\ UNCHANGED <<reconnecting, via, attempt, connects>>
       ELSE ConnectFailed(c)
  /\ UNCHANGED <<client, svc, chrome, orphans, complete, backoffMs,
                 waited, entryNull, entryFlag, fresh, retInConnect,
                 discSince, disconnects>>
  /\ UNCHANGED staleNulled
  /\ UNCHANGED <<waitVars, readyVars, overlapVars, actVars, scanVars>>

\* `await this.client.DOM.enable()`, initializeServices(), connect() returns
\* and the retry loop clears the flag and returns
ConnectDom(c) ==
  /\ pc[c] = "dom"
  /\ \E ok \in BOOLEAN :
       IF ok /\ client # NoHandle
       THEN /\ svc' = client
            /\ complete' = client
            /\ reconnecting' = FALSE
            /\ Return(c, "reconnected")
            /\ UNCHANGED <<attempt, connects>>
       ELSE /\ ConnectFailed(c)
            /\ UNCHANGED <<svc, complete, retInConnect>>
  /\ UNCHANGED <<client, chrome, orphans, backoffMs, waited,
                 entryNull, entryFlag, fresh, discSince, disconnects>>
  /\ UNCHANGED staleNulled
  /\ UNCHANGED <<waitVars, readyVars, overlapVars, actVars, scanVars>>

\* the backoff timer fired: next iteration of the retry loop
Backoff(c) ==
  /\ pc[c] = "backoff"
  /\ backoffMs' = [backoffMs EXCEPT ![c] = @ + retryDelay]
  /\ NextAttempt(c)
  /\ UNCHANGED <<client, svc, chrome, orphans, complete, waited, entryNull,
                 entryFlag, fresh, retInConnect, discSince, disconnects>>
  /\ UNCHANGED staleNulled
  /\ UNCHANGED <<waitVars, readyVars, overlapVars, actVars, scanVars>>

\* the driver emits 'disconnect' on the handle this.client refers to
DisconnectCurrent ==
  /\ disconnects < MaxDisconnects
  /\ client # NoHandle
  /\ client' = onDisconnect(client)
  /\ disconnects' = disconnects + 1
  /\ discSince' = [d \in Callers |->
                     IF pc[d] \in InCall THEN TRUE ELSE discSince[d]]
  /\ UNCHANGED <<svc, chrome, reconnecting, orphans, pc, attempt, connects,
                 complete, backoffMs, waited, via, entryNull, entryFlag,
                 fresh, retInConnect>>
  /\ UNCHANGED staleNulled
  /\ UNCHANGED <<waitVars, readyVars, overlapVars, actVars, scanVars>>

\* the driver emits 'disconnect' on an older handle that is still open: the
\* callback registered for it assigns this.client all the same
DisconnectOrphan ==
  /\ disconnects < MaxDisconnects
  /\ orphans > 0
  /\ client' = onDisconnect(client)
  /\ orphans' = IF client # NoHandle THEN orphans ELSE orphans - 1
  /\ disconnects' = disconnects + 1
  /\ discSince' = [d \in Callers |->
                     IF pc[d] \in InCall THEN TRUE ELSE discSince[d]]
  /\ UNCHANGED <<svc, chrome, reconnecting, pc, attempt, connects,
                 complete, backoffMs, waited, via, entryNull, entryFlag,
                 fresh, retInConnect>>
  /\ staleNulled' = (staleNulled \/ (client # NoHandle /\ client' = NoHandle))
  /\ UNCHANGED <<waitVars, readyVars, overlapVars, actVars, scanVars>>

Next ==
  \/ \E c \in Callers : EnsureConnected(c)
  \/ \E c \in Callers : EnsureConnectedRecheck(c)
  \/ \E c \in Callers : ConnectList(c)
  \/ \E c \in Callers : ConnectLaunch(c)
  \/ \E c \in Callers : ConnectOpen(c)
  \/ \E c \in Callers : ConnectEnable(c)
  \/ \E c \in Callers : ConnectDom(c)
  \/ \E c \in Callers : Backoff(c)
  \/ DisconnectCurrent
  \/ DisconnectOrphan


Spec == Init /\ [][Next]_vars

\* the steps of caller c that the event loop runs once their timer or driver
\* call has completed
CallerProgress(c) ==
  \/ EnsureConnectedRecheck(c)
  \/ ConnectList(c)
  \/ ConnectLaunch(c)
  \/ ConnectOpen(c)
  \/ ConnectEnable(c)
  \/ ConnectDom(c)
  \/ Backoff(c)

\* every timer fires and every connect() invocation completes
SpecLive ==
  Init /\ [][Next]_vars /\ \A c \in Callers : WF_vars(CallerProgress(c))

\* the operation that called ensureConnected() is over and the next
\* operation of the same client calls it again
CallAgain(c) ==
  /\ pc[c] \in {"returned", "thrown"}
  /\ pc' = [pc EXCEPT ![c] = "idle"]
  /\ attempt' = [attempt EXCEPT ![c] = 0]
  /\ connects' = [connects EXCEPT ![c] = 0]
  /\ backoffMs' = [backoffMs EXCEPT ![c] = 0]
  /\ waited' = [waited EXCEPT ![c] = FALSE]
  /\ via' = [via EXCEPT ![c] = "none"]
  /\ entryNull' = [entryNull EXCEPT ![c] = FALSE]
  /\ entryFlag' = [entryFlag EXCEPT ![c] = FALSE]
  /\ fresh' = [fresh EXCEPT ![c] = FALSE]
  /\ retInConnect' = [retInConnect EXCEPT ![c] = FALSE]
  /\ discSince' = [discSince EXCEPT ![c] = FALSE]
  /\ UNCHANGED <<client, svc, chrome, reconnecting, orphans, complete,
                 disconnects, staleNulled>>
  /\ UNCHANGED <<waitVars, readyVars, overlapVars, actVars, scanVars>>

\* the connection lifecycle under a sequence of operations per client
ReuseNext ==
  \/ Next
  \/ \E c \in Callers : CallAgain(c)

SpecReuse == Init /\ [][ReuseNext]_vars

(***************************************************************************)
(* ValidationService                                                       *)
(***************************************************************************)

\* `selector.trim() === ''`
IsBlank(sel) == \A i \in 1..Len(sel) : sel[i] = " "

\* the bracket balance loop: -1 as soon as the count is negative, else the
\* final count
RECURSIVE BracketScan(_, _, _)
BracketScan(sel, i, count) ==
  IF i > Len(sel) THEN count
  ELSE LET n == IF sel[i] = "[" THEN count + 1
                ELSE IF sel[i] = "]" THEN count - 1 ELSE count
       IN IF n < 0 THEN 0 - 1 ELSE BracketScan(sel, i + 1, n)

\* ValidationService.validateSelector: TRUE when it does not throw
validateSelector(sel) ==
  /\ ~(sel = <<>> \/ IsBlank(sel))
  /\ ~(Len(sel) > MAX_SELECTOR_LENGTH)
  /\ BracketScan(sel, 1, 0) = 0

\* ValidationService.validateTimeout: TRUE when it does not throw
validateTimeout_Mut(t) == TRUE
validateTimeout(t) ==
  \/ t = Undefined
  \/ ~(Val(t) < MIN_TIMEOUT_MS \/ Val(t) > MAX_TIMEOUT_MS)

\* the input validation at the head of ChromeController.waitFor
WaitForInputsValid(o) ==
  /\ Defined(o.element) => validateSelector(Val(o.element))
  /\ Defined(o.timeout) => validateTimeout(o.timeout)

(***************************************************************************)
(* WaitService.waitFor                                                     *)
(***************************************************************************)

\* the time a driver call may take to resolve
Latencies ==
  IF slowCalls < MaxSlowCalls THEN {0, WAIT_CHECK_INTERVAL_MS} ELSE {0}
Slow(lat) == IF lat > 0 THEN slowCalls + 1 ELSE slowCalls
NodeIds == {0, 5}
Urls == {"https://a/", "https://a/done"}

\* `new RegExp(options.url)` does not throw
RegExpValid(pattern) == pattern # "("
\* `urlPattern.test(currentUrl)`
RegExpTest(pattern, url) == pattern = "done" /\ url = "https://a/done"

\* `Math.min(options.timeout || DEFAULT_WAIT_TIMEOUT_MS, MAX_WAIT_TIMEOUT_MS)`
EffectiveTimeout_Mut(o) ==
  Min(IF Defined(o.timeout) THEN Val(o.timeout) ELSE DEFAULT_WAIT_TIMEOUT_MS,
      MAX_WAIT_TIMEOUT_MS)
EffectiveTimeout(o) ==
  Min(IF TruthyNum(o.timeout) THEN Val(o.timeout) ELSE DEFAULT_WAIT_TIMEOUT_MS,
      MAX_WAIT_TIMEOUT_MS)

\* `const conditions = {...}`
InitialConditions_Mut(o) ==
  [element |-> IF TruthySeq(o.element) THEN Some(FALSE) ELSE Undefined,
   text |-> IF TruthyStr(o.text) THEN Some(FALSE) ELSE Undefined,
   url |-> Some(FALSE),
   networkIdle |-> IF Defined(o.networkIdle) THEN Some(FALSE) ELSE Undefined]
InitialConditions(o) ==
  [element |-> IF TruthySeq(o.element) THEN Some(FALSE) ELSE Undefined,
   text |-> IF TruthyStr(o.text) THEN Some(FALSE) ELSE Undefined,
   url |-> IF TruthyStr(o.url) THEN Some(FALSE) ELSE Undefined,
   networkIdle |-> IF Defined(o.networkIdle) THEN Some(FALSE) ELSE Undefined]

\* `if (options.networkIdle !== undefined)` before the loop
MonitorsNetwork_Mut(o) == TruthyNum(o.networkIdle)
MonitorsNetwork(o) == Defined(o.networkIdle)

\* `if (options.networkIdle !== undefined)` in the finally block
FinallyDisables_Mut(o) == TruthyNum(o.networkIdle)
FinallyDisables(o) == Defined(o.networkIdle)

\* `while (Date.now() - startTime < timeout)`
LoopCondition_Mut(t, start, limit) == t - start + WAIT_CHECK_INTERVAL_MS < limit
LoopCondition(t, start, limit) == t - start < limit

\* `Object.values(conditions).every(v => v === undefined || v === true)`
AllConditionsMet_Mut(conds) ==
  \A k \in {"element", "text", "url"} :
    conds[k] = Undefined \/ conds[k] = Some(TRUE)
AllConditionsMet(conds) ==
  \A k \in DOMAIN conds : conds[k] = Undefined \/ conds[k] = Some(TRUE)

\* the network idle check of one poll iteration, made at time t
NetworkIdleCheck(o, conds, t, last) ==
  IF Defined(o.networkIdle) /\ conds.networkIdle # Some(TRUE)
     /\ t - last >= Val(o.networkIdle)
  THEN [conds EXCEPT !.networkIdle = Some(TRUE)]
  ELSE conds

\* the probe a poll iteration awaits next; stage 1 is the top of the loop
\* body, 2 follows the element probe, 3 the text probe, 4 the URL probe
NextProbe(o, conds, stage) ==
  IF stage <= 1 /\ TruthySeq(o.element) /\ conds.element # Some(TRUE)
  THEN "getDocument"
  ELSE IF stage <= 2 /\ TruthyStr(o.text) /\ conds.text # Some(TRUE)
  THEN "textEval"
  ELSE IF stage <= 3 /\ TruthyStr(o.url) /\ conds.url # Some(TRUE)
  THEN "urlEval"
  ELSE "check"

\* the variables the control flow of waitFor assigns
flow == <<wpc, conditions, verdict, completion, result, disableCalls,
          deadlineReached>>

\* the catch and finally blocks: Network.disable() is issued if requested
Throw(o) ==
  /\ completion' = "throw"
  /\ wpc' = IF FinallyDisables(o) THEN "disable" ELSE "thrown"
  /\ disableCalls' = IF FinallyDisables(o) THEN disableCalls + 1
                                           ELSE disableCalls
  /\ UNCHANGED <<conditions, verdict, result, deadlineReached>>

\* a return statement of the try block, then the finally block
ReturnOutcome(o, success, as, t) ==
  /\ result' = Some([success |-> success, conditions |-> conditions,
                     actualState |-> as, timeElapsed |-> t - startTime])
  /\ completion' = "return"
  /\ wpc' = IF FinallyDisables(o) THEN "disable" ELSE "returned"
  /\ disableCalls' = IF FinallyDisables(o) THEN disableCalls + 1
                                           ELSE disableCalls
  /\ UNCHANGED <<conditions, verdict, deadlineReached>>

\* the rest of a poll iteration from `stage` on, resumed at time t with the
\* condition flags conds: the next probe, or the idle check and the decision
Resume(o, conds, stage, t, last) ==
  LET p == NextProbe(o, conds, stage)
      c2 == NetworkIdleCheck(o, conds, t, last)
  IN IF p # "check"
     THEN /\ wpc' = p
          /\ conditions' = conds
          /\ UNCHANGED <<verdict, completion, result, disableCalls,
                         deadlineReached>>
     ELSE /\ conditions' = c2
          /\ IF AllConditionsMet(c2)
             THEN /\ wpc' = "asUrl"          \* getActualState(options)
                  /\ verdict' = TRUE
             ELSE /\ wpc' = "sleep"
                  /\ UNCHANGED verdict
          /\ UNCHANGED <<completion, result, disableCalls, deadlineReached>>

\* the loop condition, evaluated at time t
LoopTop(o, conds, t, start, limit, last) ==
  IF LoopCondition(t, start, limit)
  THEN Resume(o, conds, 1, t, last)
  ELSE /\ wpc' = "asUrl"                     \* timeout reached
       /\ verdict' = FALSE
       /\ deadlineReached' = TRUE
       /\ conditions' = conds
       /\ UNCHANGED <<completion, result, disableCalls>>

\* ChromeController.waitFor(options): validation, then WaitService.waitFor
\* up to its first await
WaitForCall ==
  /\ wpc = "idle"
  /\ \E o \in WaitOptions :
       /\ opts' = o
       /\ IF ~WaitForInputsValid(o)
          THEN /\ wpc' = "rejected"
               /\ UNCHANGED <<startTime, timeout, lastNetworkActivity,
                              enableCalls, conditions, verdict, completion,
                              result, disableCalls, deadlineReached>>
          ELSE /\ startTime' = now
               /\ timeout' = EffectiveTimeout(o)
               /\ lastNetworkActivity' = now
               /\ IF MonitorsNetwork(o)
                  THEN /\ wpc' = "enable"
                       /\ enableCalls' = enableCalls + 1
                       /\ conditions' = InitialConditions(o)
                       /\ UNCHANGED <<verdict, completion, result,
                                      disableCalls, deadlineReached>>
                  ELSE /\ LoopTop(o, InitialConditions(o), now, now,
                                  EffectiveTimeout(o), now)
                       /\ UNCHANGED enableCalls
  /\ UNCHANGED <<netEnabled, netListeners, now, subscribed, actualState,
                 sleeps, slowCalls, driverFailed>>
  /\ UNCHANGED <<carried, subscribedAt>>
  /\ UNCHANGED <<connVars, readyVars, overlapVars, actVars, scanVars>>

\* `await this.client.Network.enable()`, then the two callbacks are
\* registered and the loop is entered
NetworkEnable ==
  /\ wpc = "enable"
  /\ \E ok \in BOOLEAN, lat \in Latencies :
       /\ now' = now + lat
       /\ slowCalls' = Slow(lat)
       /\ IF ok
          THEN /\ netEnabled' = TRUE
               /\ netListeners' = netListeners + 2
               /\ subscribed' = TRUE
               /\ subscribedAt' = Some(now + lat)
               /\ LoopTop(opts, conditions, now + lat, startTime, timeout,
                          lastNetworkActivity)
               /\ UNCHANGED driverFailed
          ELSE /\ driverFailed' = TRUE
               /\ Throw(opts)
               /\ UNCHANGED <<netEnabled, netListeners, subscribed,
                              subscribedAt>>
  /\ UNCHANGED <<opts, startTime, timeout, lastNetworkActivity, actualState,
                 enableCalls, sleeps>>
  /\ UNCHANGED carried
  /\ UNCHANGED <<connVars, readyVars, overlapVars, actVars, scanVars>>

\* a request starts or finishes: the callbacks of the call run
NetworkEvent ==
  /\ subscribed /\ netEnabled
  /\ wpc \notin {"idle", "returned", "thrown", "rejected"}
  /\ lastNetworkActivity # now
  /\ lastNetworkActivity' = now
  /\ UNCHANGED <<netEnabled, netListeners, opts, now, startTime, timeout,
                 subscribed, actualState, enableCalls, sleeps, slowCalls,
                 driverFailed, flow>>
  /\ UNCHANGED <<carried, subscribedAt>>
  /\ UNCHANGED <<connVars, readyVars, overlapVars, actVars, scanVars>>

\* `await this.client.DOM.getDocument()` of the element probe
ProbeGetDocument ==
  /\ wpc = "getDocument"
  /\ \E ok \in BOOLEAN, lat \in Latencies :
       /\ now' = now + lat
       /\ slowCalls' = Slow(lat)
       /\ IF ok
          THEN /\ wpc' = "querySelector"
               /\ UNCHANGED <<conditions, verdict, completion, result,
                              disableCalls, deadlineReached, driverFailed>>
          ELSE /\ driverFailed' = TRUE
               /\ Resume(opts, [conditions EXCEPT !.element = Some(FALSE)],
                         2, now + lat, lastNetworkActivity)
  /\ UNCHANGED <<netEnabled, netListeners, opts, startTime, timeout,
                 lastNetworkActivity, subscribed, actualState, enableCalls,
                 sleeps>>
  /\ UNCHANGED <<carried, subscribedAt>>
  /\ UNCHANGED <<connVars, readyVars, overlapVars, actVars, scanVars>>

\* `await this.client.DOM.querySelector(...)` of the element probe
ProbeQuerySelector ==
  /\ wpc = "querySelector"
  /\ \E lat \in Latencies :
       /\ now' = now + lat
       /\ slowCalls' = Slow(lat)
       /\ \/ \E nodeId \in NodeIds :
               /\ Resume(opts,
                         [conditions EXCEPT !.element = Some(nodeId # 0)],
                         2, now + lat, lastNetworkActivity)
               /\ UNCHANGED driverFailed
          \/ /\ driverFailed' = TRUE
             /\ Resume(opts, [conditions EXCEPT !.element = Some(FALSE)],
                       2, now + lat, lastNetworkActivity)
  /\ UNCHANGED <<netEnabled, netListeners, opts, startTime, timeout,
                 lastNetworkActivity, subscribed, actualState, enableCalls,
                 sleeps>>
  /\ UNCHANGED <<carried, subscribedAt>>
  /\ UNCHANGED <<connVars, readyVars, overlapVars, actVars, scanVars>>

\* `await this.client.Runtime.evaluate(...)` of the text probe
ProbeText ==
  /\ wpc = "textEval"
  /\ \E lat \in Latencies :
       /\ now' = now + lat
       /\ slowCalls' = Slow(lat)
       /\ \/ \E textFound \in BOOLEAN :
               /\ Resume(opts,
                         IF textFound
                         THEN [conditions EXCEPT !.text = Some(TRUE)]
                         ELSE conditions,
                         3, now + lat, lastNetworkActivity)
               /\ UNCHANGED driverFailed
          \/ /\ driverFailed' = TRUE        \* rejected, or exceptionDetails
             /\ Throw(opts)
  /\ UNCHANGED <<netEnabled, netListeners, opts, startTime, timeout,
                 lastNetworkActivity, subscribed, actualState, enableCalls,
                 sleeps>>
  /\ UNCHANGED <<carried, subscribedAt>>
  /\ UNCHANGED <<connVars, readyVars, overlapVars, actVars, scanVars>>

\* `await this.client.Runtime.evaluate(...)` of the URL probe, then
\* `new RegExp(options.url)` and the test
ProbeUrl ==
  /\ wpc = "urlEval"
  /\ \E lat \in Latencies :
       /\ now' = now + lat
       /\ slowCalls' = Slow(lat)
       /\ \/ \E currentUrl \in Urls :
               /\ IF ~RegExpValid(Val(opts.url))
                  THEN Throw(opts)
                  ELSE Resume(opts,
                              IF RegExpTest(Val(opts.url), currentUrl)
                              THEN [conditions EXCEPT !.url = Some(TRUE)]
                              ELSE conditions,
                              4, now + lat, lastNetworkActivity)
               /\ UNCHANGED driverFailed
          \/ /\ driverFailed' = TRUE
             /\ Throw(opts)
  /\ UNCHANGED <<netEnabled, netListeners, opts, startTime, timeout,
                 lastNetworkActivity, subscribed, actualState, enableCalls,
                 sleeps>>
  /\ UNCHANGED <<carried, subscribedAt>>
  /\ UNCHANGED <<connVars, readyVars, overlapVars, actVars, scanVars>>

\* `await new Promise(resolve => setTimeout(resolve, checkInterval))`: the
\* timer fires on time, or late (at the deadline of the call at the earliest)
PollSleep ==
  /\ wpc = "sleep"
  /\ \E late \in BOOLEAN :
       LET t == IF late
                THEN Max(now + WAIT_CHECK_INTERVAL_MS, startTime + timeout)
                ELSE now + WAIT_CHECK_INTERVAL_MS
       IN /\ ~late => sleeps < MaxPolls
          /\ now' = t
          /\ LoopTop(opts, conditions, t, startTime, timeout,
                     lastNetworkActivity)
  /\ sleeps' = sleeps + 1
  /\ UNCHANGED <<netEnabled, netListeners, opts, startTime, timeout,
                 lastNetworkActivity, subscribed, actualState, enableCalls,
                 slowCalls, driverFailed>>
  /\ carried' = {k \in DOMAIN conditions : conditions[k] = Some(TRUE)}
  /\ UNCHANGED subscribedAt
  /\ UNCHANGED <<connVars, readyVars, overlapVars, actVars, scanVars>>

\* getActualState continues after the URL read: the element read, the text
\* read, or its return and the return statement of waitFor
AfterActualUrl(as, t) ==
  IF TruthySeq(opts.element)
  THEN /\ wpc' = "asGetDocument"
       /\ UNCHANGED <<conditions, verdict, completion, result, disableCalls,
                      deadlineReached>>
  ELSE IF TruthyStr(opts.text)
  THEN /\ wpc' = "asTextEval"
       /\ UNCHANGED <<conditions, verdict, completion, result, disableCalls,
                      deadlineReached>>
  ELSE ReturnOutcome(opts, verdict, as, t)

AfterActualElement(as, t) ==
  IF TruthyStr(opts.text)
  THEN /\ wpc' = "asTextEval"
       /\ UNCHANGED <<conditions, verdict, completion, result, disableCalls,
                      deadlineReached>>
  ELSE ReturnOutcome(opts, verdict, as, t)

\* getActualState: `await this.client.Runtime.evaluate('window.location.href')`
ActualUrl ==
  /\ wpc = "asUrl"
  /\ \E lat \in Latencies :
       /\ now' = now + lat
       /\ slowCalls' = Slow(lat)
       /\ \/ \E currentUrl \in Urls :
               LET as == [NoActualState EXCEPT !.currentUrl = Some(currentUrl)]
               IN /\ actualState' = as
                  /\ AfterActualUrl(as, now + lat)
                  /\ UNCHANGED driverFailed
          \/ /\ driverFailed' = TRUE
             /\ Throw(opts)
             /\ UNCHANGED actualState
  /\ UNCHANGED <<netEnabled, netListeners, opts, startTime, timeout,
                 lastNetworkActivity, subscribed, enableCalls, sleeps>>
  /\ UNCHANGED <<carried, subscribedAt>>
  /\ UNCHANGED <<connVars, readyVars, overlapVars, actVars, scanVars>>

\* getActualState: `await this.client.DOM.getDocument()`
ActualGetDocument ==
  /\ wpc = "asGetDocument"
  /\ \E ok \in BOOLEAN, lat \in Latencies :
       /\ now' = now + lat
       /\ slowCalls' = Slow(lat)
       /\ IF ok
          THEN /\ wpc' = "asQuerySelector"
               /\ UNCHANGED <<conditions, verdict, completion, result,
                              disableCalls, deadlineReached, driverFailed>>
          ELSE /\ driverFailed' = TRUE
               /\ AfterActualElement(actualState, now + lat)
  /\ UNCHANGED <<netEnabled, netListeners, opts, startTime, timeout,
                 lastNetworkActivity, subscribed, actualState, enableCalls,
                 sleeps>>
  /\ UNCHANGED <<carried, subscribedAt>>
  /\ UNCHANGED <<connVars, readyVars, overlapVars, actVars, scanVars>>

\* getActualState: `await this.client.DOM.querySelector(...)`
ActualQuerySelector ==
  /\ wpc = "asQuerySelector"
  /\ \E lat \in Latencies :
       /\ now' = now + lat
       /\ slowCalls' = Slow(lat)
       /\ \/ \E nodeId \in NodeIds :
               LET as == [actualState EXCEPT !.elementFound = (nodeId # 0)]
               IN /\ actualState' = as
                  /\ AfterActualElement(as, now + lat)
                  /\ UNCHANGED driverFailed
          \/ /\ driverFailed' = TRUE
             /\ AfterActualElement(actualState, now + lat)
             /\ UNCHANGED actualState
  /\ UNCHANGED <<netEnabled, netListeners, opts, startTime, timeout,
                 lastNetworkActivity, subscribed, enableCalls, sleeps>>
  /\ UNCHANGED <<carried, subscribedAt>>
  /\ UNCHANGED <<connVars, readyVars, overlapVars, actVars, scanVars>>

\* getActualState: the text scan; an evaluation exception leaves textFound
\* false, a rejected call propagates
ActualText ==
  /\ wpc = "asTextEval"
  /\ \E lat \in Latencies :
       /\ now' = now + lat
       /\ slowCalls' = Slow(lat)
       /\ \/ \E textFound \in BOOLEAN :
               LET as == [actualState EXCEPT !.textFound = textFound]
               IN /\ actualState' = as
                  /\ ReturnOutcome(opts, verdict, as, now + lat)
                  /\ UNCHANGED driverFailed
          \/ /\ driverFailed' = TRUE        \* exceptionDetails
             /\ ReturnOutcome(opts, verdict, actualState, now + lat)
             /\ UNCHANGED actualState
          \/ /\ driverFailed' = TRUE        \* rejected
             /\ Throw(opts)
             /\ UNCHANGED actualState
  /\ UNCHANGED <<netEnabled, netListeners, opts, startTime, timeout,
                 lastNetworkActivity, subscribed, enableCalls, sleeps>>
  /\ UNCHANGED <<carried, subscribedAt>>
  /\ UNCHANGED <<connVars, readyVars, overlapVars, actVars, scanVars>>

\* the finally block: `await this.client.Network.disable()`, errors ignored;
\* then the call returns or throws as the try block completed
NetworkDisable ==
  /\ wpc = "disable"
  /\ \E ok \in BOOLEAN, lat \in Latencies :
       /\ now' = now + lat
       /\ slowCalls' = Slow(lat)
       /\ netEnabled' = IF ok THEN FALSE ELSE netEnabled
       /\ driverFailed' = IF ok THEN driverFailed ELSE TRUE
  /\ wpc' = IF completion = "return" THEN "returned" ELSE "thrown"
  /\ UNCHANGED <<netListeners, opts, startTime, timeout, conditions,
                 lastNetworkActivity, subscribed, actualState, verdict,
                 completion, result, enableCalls, disableCalls, sleeps,
                 deadlineReached>>
  /\ UNCHANGED <<carried, subscribedAt>>
  /\ UNCHANGED <<connVars, readyVars, overlapVars, actVars, scanVars>>

WaitNext ==
  \/ WaitForCall
  \/ NetworkEnable
  \/ NetworkEvent
  \/ ProbeGetDocument
  \/ ProbeQuerySelector
  \/ ProbeText
  \/ ProbeUrl
  \/ PollSleep
  \/ ActualUrl
  \/ ActualGetDocument
  \/ ActualQuerySelector
  \/ ActualText
  \/ NetworkDisable

SpecWait == Init /\ [][WaitNext]_vars

(***************************************************************************)
(* WaitService.waitFor: calls with networkIdle that overlap in time        *)
(*                                                                         *)
(* Several waitFor({networkIdle, timeout}) calls run on one connection.    *)
(* Driver calls resolve at once; the clock advances by poll intervals      *)
(* between the callbacks, so a timer fires when it is due or later.        *)
(***************************************************************************)

\* requests that name the network idle condition only
OverlapOptions ==
  {o \in WaitOptions :
     /\ WaitForInputsValid(o)
     /\ MonitorsNetwork(o)
     /\ o.element = Undefined /\ o.text = Undefined /\ o.url = Undefined}

\* a request the call was not told of occurred within the last n ms
MissedWithin(w, n) == Defined(oMissed[w]) /\ oNow - Val(oMissed[w]) < n

\* the catch block, then the finally block issues Network.disable()
OvThrow(w) ==
  /\ oCompletion' = [oCompletion EXCEPT ![w] = "throw"]
  /\ opc' = [opc EXCEPT ![w] = IF FinallyDisables(oOpts[w]) THEN "disable"
                                                           ELSE "thrown"]

\* the loop condition and one poll iteration, for options o and flags conds
OvLoopTop(w, o, conds, start, limit, last) ==
  IF LoopCondition(oNow, start, limit)
  THEN LET c2 == NetworkIdleCheck(o, conds, oNow, last)
       IN /\ oConds' = [oConds EXCEPT ![w] = c2]
          /\ falseIdle' = [falseIdle EXCEPT ![w] =
               @ \/ (/\ c2.networkIdle = Some(TRUE)
                     /\ conds.networkIdle # Some(TRUE)
                     /\ MissedWithin(w, Val(o.networkIdle)))]
          /\ IF AllConditionsMet(c2)
             THEN /\ opc' = [opc EXCEPT ![w] = "asUrl"]
                  /\ oVerdict' = [oVerdict EXCEPT ![w] = TRUE]
                  /\ UNCHANGED oWake
             ELSE /\ opc' = [opc EXCEPT ![w] = "sleep"]
                  /\ oWake' = [oWake EXCEPT
                                 ![w] = oNow + WAIT_CHECK_INTERVAL_MS]
                  /\ UNCHANGED oVerdict
  ELSE /\ opc' = [opc EXCEPT ![w] = "asUrl"]
       /\ oVerdict' = [oVerdict EXCEPT ![w] = FALSE]
       /\ oConds' = [oConds EXCEPT ![w] = conds]
       /\ UNCHANGED <<oWake, falseIdle>>

\* waitFor(options) up to `await this.client.Network.enable()`
OvCall(w) ==
  /\ opc[w] = "idle"
  /\ \E o \in OverlapOptions :
       /\ oOpts' = [oOpts EXCEPT ![w] = o]
       /\ oTimeout' = [oTimeout EXCEPT ![w] = EffectiveTimeout(o)]
       /\ oConds' = [oConds EXCEPT ![w] = InitialConditions(o)]
  /\ oStart' = [oStart EXCEPT ![w] = oNow]
  /\ oLast' = [oLast EXCEPT ![w] = oNow]
  /\ opc' = [opc EXCEPT ![w] = "enable"]
  /\ UNCHANGED <<oNet, oNow, lastRequest, oSub, oWake, oVerdict, oCompletion,
                 oMissed, falseIdle>>
  /\ UNCHANGED <<connVars, waitVars, readyVars, actVars, scanVars>>

\* Network.enable() resolved or rejected; the callbacks are registered and
\* the loop is entered
OvEnable(w) ==
  /\ opc[w] = "enable"
  /\ \E ok \in BOOLEAN :
       IF ok
       THEN /\ oNet' = TRUE
            /\ oSub' = [oSub EXCEPT ![w] = TRUE]
            /\ OvLoopTop(w, oOpts[w], oConds[w], oStart[w], oTimeout[w],
                         oLast[w])
            /\ UNCHANGED oCompletion
       ELSE /\ OvThrow(w)
            /\ UNCHANGED <<oNet, oSub, oConds, oWake, oVerdict, falseIdle>>
  /\ UNCHANGED <<oNow, lastRequest, oOpts, oStart, oTimeout, oLast, oMissed>>
  /\ UNCHANGED <<connVars, waitVars, readyVars, actVars, scanVars>>

\* the page issues or finishes a request: the browser reports it only while
\* the Network domain is enabled, and then the callbacks of every call run
OvRequest ==
  /\ lastRequest # Some(oNow)
  /\ \E w \in Waiters : opc[w] \notin {"idle", "returned", "thrown"}
  /\ lastRequest' = Some(oNow)
  /\ oLast' = [w \in Waiters |->
                 IF oNet /\ oSub[w] /\ opc[w] \notin {"returned", "thrown"}
                 THEN oNow ELSE oLast[w]]
  /\ oMissed' = [w \in Waiters |->
                   IF ~oNet /\ oSub[w] /\ opc[w] \notin {"returned", "thrown"}
                   THEN Some(oNow) ELSE oMissed[w]]
  /\ UNCHANGED <<oNet, oNow, opc, oOpts, oStart, oTimeout, oConds, oSub,
                 oWake, oVerdict, oCompletion, falseIdle>>
  /\ UNCHANGED <<connVars, waitVars, readyVars, actVars, scanVars>>

\* time passes
OvTick ==
  /\ oNow < MaxTicks * WAIT_CHECK_INTERVAL_MS
  /\ oNow' = oNow + WAIT_CHECK_INTERVAL_MS
  /\ UNCHANGED <<oNet, lastRequest, opc, oOpts, oStart, oTimeout, oLast,
                 oConds, oSub, oWake, oVerdict, oCompletion, oMissed,
                 falseIdle>>
  /\ UNCHANGED <<connVars, waitVars, readyVars, actVars, scanVars>>

\* the poll timer of the call fired
OvWake(w) ==
  /\ opc[w] = "sleep"
  /\ oNow >= oWake[w]
  /\ OvLoopTop(w, oOpts[w], oConds[w], oStart[w], oTimeout[w], oLast[w])
  /\ UNCHANGED <<oNet, oNow, lastRequest, oOpts, oStart, oTimeout, oLast,
                 oSub, oCompletion, oMissed>>
  /\ UNCHANGED <<connVars, waitVars, readyVars, actVars, scanVars>>

\* getActualState resolved or rejected; then the finally block
OvActualState(w) ==
  /\ opc[w] = "asUrl"
  /\ \E ok \in BOOLEAN :
       IF ok
       THEN /\ oCompletion' = [oCompletion EXCEPT ![w] = "return"]
            /\ opc' = [opc EXCEPT
                         ![w] = IF FinallyDisables(oOpts[w]) THEN "disable"
                                                             ELSE "returned"]
       ELSE OvThrow(w)
  /\ UNCHANGED <<oNet, oNow, lastRequest, oOpts, oStart, oTimeout, oLast,
                 oConds, oSub, oWake, oVerdict, oMissed, falseIdle>>
  /\ UNCHANGED <<connVars, waitVars, readyVars, actVars, scanVars>>

\* `await this.client.Network.disable()` of the finally block: it turns the
\* domain off for the connection; an error is ignored
OvDisable(w) ==
  /\ opc[w] = "disable"
  /\ \E ok \in BOOLEAN : oNet' = IF ok THEN FALSE ELSE oNet
  /\ opc' = [opc EXCEPT ![w] = IF oCompletion[w] = "return" THEN "returned"
                                                            ELSE "thrown"]
  /\ UNCHANGED <<oNow, lastRequest, oOpts, oStart, oTimeout, oLast, oConds,
                 oSub, oWake, oVerdict, oCompletion, oMissed, falseIdle>>
  /\ UNCHANGED <<connVars, waitVars, readyVars, actVars, scanVars>>

OverlapNext ==
  \/ \E w \in Waiters : OvCall(w)
  \/ \E w \in Waiters : OvEnable(w)
  \/ OvRequest
  \/ OvTick
  \/ \E w \in Waiters : OvWake(w)
  \/ \E w \in Waiters : OvActualState(w)
  \/ \E w \in Waiters : OvDisable(w)

SpecOverlap == Init /\ [][OverlapNext]_vars

(***************************************************************************)
(* ElementReadinessService                                                 *)
(***************************************************************************)

Abs(n) == IF n < 0 THEN 0 - n ELSE n

\* checkScript of checkElementState, run in the page on element e
CheckScript(e) ==
  [visible |-> e.box.width > 0 /\ e.box.height > 0 /\ ~e.hidden,
   enabled |-> ~e.disabled,
   boundingBox |-> e.box]

\* the comparison of checkStability
BoxStable_Mut(newBox, initialBox) ==
  /\ Abs(newBox.x - initialBox.x) <= STABILITY_TOLERANCE
  /\ Abs(newBox.y - initialBox.y) <= STABILITY_TOLERANCE
  /\ Abs(newBox.width - initialBox.width) <= STABILITY_TOLERANCE
  /\ Abs(newBox.height - initialBox.height) <= STABILITY_TOLERANCE
BoxStable(newBox, initialBox) ==
  /\ Abs(newBox.x - initialBox.x) < STABILITY_TOLERANCE
  /\ Abs(newBox.y - initialBox.y) < STABILITY_TOLERANCE
  /\ Abs(newBox.width - initialBox.width) < STABILITY_TOLERANCE
  /\ Abs(newBox.height - initialBox.height) < STABILITY_TOLERANCE

\* ElementReadinessService.isReady
isReady_Mut(st) == st.visible /\ st.enabled /\ st.stable /\ rchecks > 1
isReady(st) == st.visible /\ st.enabled /\ st.stable

\* `if (!result.result.value) return false` of checkStability: the value of
\* stable when the second sample finds no element
MissingSampleStable_Mut == TRUE
MissingSampleStable == FALSE

\* the `ready` field of the result built on the timeout path
TimeoutReady(st) == FALSE

ReadyLatencies ==
  IF rslow < MaxSlowCalls THEN {0, POLL_INTERVAL_MS} ELSE {0}
ReadySlow(lat) == IF lat > 0 THEN rslow + 1 ELSE rslow

ReadinessResult(ready, st, t) ==
  Some([ready |-> ready, state |-> st, timeElapsed |-> t - rstart])

\* checkElementState is invoked: it runs up to DOM.getDocument()
StartCheck(site) ==
  /\ rpc' = "getDocument"
  /\ rsite' = site
  /\ rchecks' = rchecks + 1
  /\ UNCHANGED <<rstate, rresult>>

\* `while (Date.now() - startTime < timeout)`, evaluated at time t
ReadyLoopTop(t) ==
  IF t - rstart < rtimeout THEN StartCheck("loop") ELSE StartCheck("final")

\* checkElementState returned st at time t: the code of waitForReady that
\* follows the call
CheckDone(st, t) ==
  CASE rsite = "initial" ->
         IF isReady(st)
         THEN /\ rresult' = ReadinessResult(TRUE, st, t)
              /\ rpc' = "returned"
              /\ rstate' = st
              /\ UNCHANGED <<rsite, rchecks>>
         ELSE /\ rstate' = st
              /\ rresult' = rresult
              /\ IF t - rstart < rtimeout
                 THEN /\ rpc' = "getDocument"
                      /\ rsite' = "loop"
                      /\ rchecks' = rchecks + 1
                 ELSE /\ rpc' = "getDocument"
                      /\ rsite' = "final"
                      /\ rchecks' = rchecks + 1
    [] rsite = "loop" ->
         IF isReady(st)
         THEN /\ rresult' = ReadinessResult(TRUE, st, t)
              /\ rpc' = "returned"
              /\ rstate' = st
              /\ UNCHANGED <<rsite, rchecks>>
         ELSE /\ rpc' = "pollSleep"
              /\ rstate' = st
              /\ UNCHANGED <<rsite, rchecks, rresult>>
    [] rsite = "final" ->
         /\ rresult' = ReadinessResult(TimeoutReady(st), st, t)
         /\ rpc' = "returned"
         /\ rstate' = st
         /\ UNCHANGED <<rsite, rchecks>>

\* waitForReady(selector, timeout) up to the first await
WaitForReadyCall ==
  /\ rpc = "idle"
  /\ \E t \in ReadyTimeouts :
       rtimeout' = IF Defined(t) THEN Val(t) ELSE DEFAULT_TIMEOUT_MS
  /\ rstart' = rnow
  /\ StartCheck("initial")
  /\ UNCHANGED <<rnow, probe, rsleeps, rslow, rlate, rfault, rsecond, rsample>>
  /\ UNCHANGED <<connVars, waitVars, overlapVars, actVars, scanVars>>

\* checkElementState: `await this.client.DOM.getDocument()`
CheckGetDocument ==
  /\ rpc = "getDocument"
  /\ \E ok \in BOOLEAN, lat \in ReadyLatencies :
       /\ rnow' = rnow + lat
       /\ rslow' = ReadySlow(lat)
       /\ IF ok THEN /\ rpc' = "querySelector"
                     /\ UNCHANGED <<rsite, rstate, rresult, rchecks,
                                    rfault, rsecond, rsample>>
                ELSE /\ CheckDone(NotFoundState, rnow + lat)
                     /\ rfault' = TRUE
                     /\ rsecond' = FALSE
                     /\ rsample' = Undefined
  /\ UNCHANGED <<rtimeout, rstart, probe, rsleeps, rlate>>
  /\ UNCHANGED <<connVars, waitVars, overlapVars, actVars, scanVars>>

\* checkElementState: `await this.client.DOM.querySelector(...)`
CheckQuerySelector ==
  /\ rpc = "querySelector"
  /\ \E lat \in ReadyLatencies :
       /\ rnow' = rnow + lat
       /\ rslow' = ReadySlow(lat)
       /\ \/ \E nodeId \in NodeIds :
               IF nodeId = 0
               THEN /\ CheckDone(NotFoundState, rnow + lat)
                    /\ rfault' = FALSE
                    /\ rsecond' = FALSE
                    /\ rsample' = Undefined
               ELSE /\ rpc' = "evaluate"
                    /\ UNCHANGED <<rsite, rstate, rresult, rchecks,
                                   rfault, rsecond, rsample>>
          \/ /\ CheckDone(NotFoundState, rnow + lat)      \* the call threw
             /\ rfault' = TRUE
             /\ rsecond' = FALSE
             /\ rsample' = Undefined
  /\ UNCHANGED <<rtimeout, rstart, probe, rsleeps, rlate>>
  /\ UNCHANGED <<connVars, waitVars, overlapVars, actVars, scanVars>>

\* checkElementState: the first probe; then checkStability starts its timer
CheckEvaluate ==
  /\ rpc = "evaluate"
  /\ \E lat \in ReadyLatencies :
       /\ rnow' = rnow + lat
       /\ rslow' = ReadySlow(lat)
       /\ \/ \E e \in PageElements :
               /\ probe' = CheckScript(e)
               /\ rpc' = "stabilitySleep"
               /\ UNCHANGED <<rsite, rstate, rresult, rchecks, rfault,
                              rsecond, rsample>>
          \/ /\ CheckDone(NotFoundState, rnow + lat)  \* the script found no
             /\ rfault' = FALSE                       \* element: value null
             /\ rsecond' = FALSE
             /\ rsample' = Undefined
             /\ UNCHANGED probe
          \/ /\ CheckDone(NotFoundState, rnow + lat)  \* exceptionDetails, or
             /\ rfault' = TRUE                        \* the call threw
             /\ rsecond' = FALSE
             /\ rsample' = Undefined
             /\ UNCHANGED probe
  /\ UNCHANGED <<rtimeout, rstart, rsleeps, rlate>>
  /\ UNCHANGED <<connVars, waitVars, overlapVars, actVars, scanVars>>

\* checkStability: the 100 ms timer fired
StabilitySleep ==
  /\ rpc = "stabilitySleep"
  /\ rnow' = rnow + STABILITY_CHECK_MS
  /\ rpc' = "stabilityEval"
  /\ UNCHANGED <<rsite, rtimeout, rstart, probe, rstate, rresult, rchecks,
                 rsleeps, rslow, rlate, rfault, rsecond, rsample>>
  /\ UNCHANGED <<connVars, waitVars, overlapVars, actVars, scanVars>>

\* checkStability: the second sample and the comparison; checkElementState
\* returns
StabilityEval ==
  /\ rpc = "stabilityEval"
  /\ \E lat \in ReadyLatencies :
       /\ rnow' = rnow + lat
       /\ rslow' = ReadySlow(lat)
       /\ \/ \E newBox \in Boxes :
               /\ CheckDone([visible |-> probe.visible,
                             enabled |-> probe.enabled,
                             stable |-> BoxStable(newBox, probe.boundingBox),
                             boundingBox |-> Some(probe.boundingBox)],
                            rnow + lat)
               /\ rfault' = FALSE
               /\ rsecond' = TRUE
               /\ rsample' = Some(newBox)
          \/ /\ CheckDone([visible |-> probe.visible,    \* no element: null
                           enabled |-> probe.enabled,
                           stable |-> MissingSampleStable,
                           boundingBox |-> Some(probe.boundingBox)],
                          rnow + lat)
             /\ rfault' = FALSE
             /\ rsecond' = FALSE
             /\ rsample' = Undefined
          \/ /\ CheckDone([visible |-> probe.visible,    \* the call threw:
                           enabled |-> probe.enabled,    \* `catch` of
                           stable |-> FALSE,             \* checkStability
                           boundingBox |-> Some(probe.boundingBox)],
                          rnow + lat)
             /\ rfault' = TRUE
             /\ rsecond' = FALSE
             /\ rsample' = Undefined
  /\ UNCHANGED <<rtimeout, rstart, probe, rsleeps, rlate>>
  /\ UNCHANGED <<connVars, waitVars, overlapVars, actVars, scanVars>>

\* the poll timer fired, on time or late (at the deadline at the earliest)
ReadyPollSleep ==
  /\ rpc = "pollSleep"
  /\ \E late \in BOOLEAN :
       LET t == IF late THEN Max(rnow + POLL_INTERVAL_MS, rstart + rtimeout)
                        ELSE rnow + POLL_INTERVAL_MS
       IN /\ ~late => rsleeps < MaxPolls
          /\ rnow' = t
          /\ rlate' = (rlate \/ late)
          /\ ReadyLoopTop(t)
  /\ rsleeps' = rsleeps + 1
  /\ UNCHANGED <<rtimeout, rstart, probe, rslow, rfault, rsecond, rsample>>
  /\ UNCHANGED <<connVars, waitVars, overlapVars, actVars, scanVars>>

ReadyNext ==
  \/ WaitForReadyCall
  \/ CheckGetDocument
  \/ CheckQuerySelector
  \/ CheckEvaluate
  \/ StabilitySleep
  \/ StabilityEval
  \/ ReadyPollSleep

SpecReady == Init /\ [][ReadyNext]_vars

(***************************************************************************)
(* ChromeController.click / ChromeController.type                          *)
(*                                                                         *)
(* apc names the await the call is suspended at.  aLog is the sequence of  *)
(* requests the call has handed to the driver (and the timers it started), *)
(* in the order it issued them.  waitForReady is one await of click/type:  *)
(* its result is drawn from the results waitForReady can build.            *)
(***************************************************************************)

\* options?.ensureInteractive is truthy
ensureInteractive_Mut(o) == FALSE
ensureInteractive_On(o) == TRUE
ensureInteractive(o) == o.ensureInteractive = Some(TRUE)

\* `if (!nodeId)` is not taken
NodeResolved_Mut(nodeId) == TRUE
NodeResolved(nodeId) == nodeId # 0

\* the content quad of DOM.getBoxModel for an element whose content box is b
ContentQuad(b) ==
  <<b.x, b.y, b.x + b.width, b.y, b.x + b.width, b.y + b.height,
    b.x, b.y + b.height>>

\* const x = (model.content[0] + model.content[2]) / 2 (1-based here)
CenterX(content) == (content[1] + content[3]) \div 2
\* const y = (model.content[1] + model.content[5]) / 2
CenterY(content) == (content[2] + content[6]) \div 2

\* ElementReadinessService.getBlockingReasons
getBlockingReasons_Mut(st) == <<>>
getBlockingReasons(st) ==
  (IF ~st.visible THEN <<"element not visible (hidden or zero size)">>
                  ELSE <<>>)
  \o (IF ~st.enabled THEN <<"element disabled or readonly">> ELSE <<>>)
  \o (IF ~st.stable THEN <<"element position unstable (still animating)">>
                    ELSE <<>>)

\* the character the i-th pass of `for (const char of text)` binds
CharAt_Mut(text, i) == text[1]
CharAt(text, i) == text[i]

\* boxes the page may hold for the element while the call runs
ActBoxes == {Box(1000, 2000, 500, 300), Box(1060, 2000, 500, 300)}

\* the ReadinessResult values waitForReady returns: ready is true only with
\* a state that passes isReady; the timeout path returns ready false with
\* whatever the final check saw
ReadinessResults ==
  {r \in [ready : BOOLEAN,
          state : {NotFoundState} \cup
                  [visible : BOOLEAN, enabled : BOOLEAN, stable : BOOLEAN,
                   boundingBox : {Some(b) : b \in ActBoxes}],
          timeElapsed : {STABILITY_CHECK_MS,
                         STABILITY_CHECK_MS + POLL_INTERVAL_MS}] :
     r.ready => isReady(r.state)}

\* a request handed to the driver, or a timer started
Ev(type, x, y, text) == [type |-> type, x |-> x, y |-> y, text |-> text]

\* the call issues request ev and suspends at position p
Issue(p, ev) ==
  /\ apc' = p
  /\ aLog' = Append(aLog, ev)

\* `throw new Error(JSON.stringify({error: ...}))` inside the try block,
\* rethrown by the catch block
ActThrow(err) ==
  /\ apc' = "thrown"
  /\ aError' = Some(err)
  /\ UNCHANGED aLog

StructuredError(code, st, t, reasons) ==
  [error |-> code, state |-> st, timeElapsed |-> t, reasons |-> reasons]

\* click(selector, options) / type(selector, text): validateSelector, then
\* `await this.ensureConnected()`
ActCall ==
  /\ apc = "idle"
  /\ \E op \in {"click", "type"}, sel \in {<<"#", "a">>, <<"a", "[">>, <<>>},
        o \in {Undefined} \cup
              {Some([ensureInteractive |-> e]) :
                 e \in {Undefined, Some(FALSE), Some(TRUE)}},
        text \in UNION {[1..n -> {"a", "b"}] : n \in 0..MaxTextLen} :
       /\ op = "click" => text = <<>>
       /\ op = "type" => o = Undefined
       /\ aop' = op
       /\ aSel' = sel
       /\ aOpts' = o
       /\ aText' = text
       /\ apc' = IF validateSelector(sel) THEN "ensureConnected"
                                          ELSE "rejected"
  /\ UNCHANGED <<aNode, aBox, ax, ay, aReadiness, aKey, aError, aLog>>
  /\ UNCHANGED <<connVars, waitVars, readyVars, overlapVars, scanVars>>

\* ensureConnected resolved or threw (outside the try block)
ActConnected ==
  /\ apc = "ensureConnected"
  /\ \/ /\ Issue("getDocument", Ev("getDocument", 0, 0, ""))
        /\ UNCHANGED aError
     \/ /\ apc' = "thrown"
        /\ aError' = Some(StructuredError("CONNECT", Undefined, 0, <<>>))
        /\ UNCHANGED aLog
  /\ UNCHANGED <<aop, aSel, aOpts, aText, aNode, aBox, ax, ay, aReadiness,
                 aKey>>
  /\ UNCHANGED <<connVars, waitVars, readyVars, overlapVars, scanVars>>

\* `const { root } = await this.client.DOM.getDocument()`
ActGetDocument ==
  /\ apc = "getDocument"
  /\ Issue("querySelector", Ev("querySelector", 0, 0, ""))
  /\ UNCHANGED <<aop, aSel, aOpts, aText, aNode, aBox, ax, ay, aReadiness,
                 aKey, aError>>
  /\ UNCHANGED <<connVars, waitVars, readyVars, overlapVars, scanVars>>

\* `const { nodeId } = await this.client.DOM.querySelector(...)` and the
\* `if (!nodeId)` that follows
ActQuerySelector ==
  /\ apc = "querySelector"
  /\ \E nodeId \in NodeIds :
       /\ aNode' = Some(nodeId)
       /\ IF ~NodeResolved(nodeId)
          THEN ActThrow(StructuredError("ELEMENT_NOT_FOUND", Undefined, 0, <<>>))
          ELSE /\ IF aop = "click"
                  THEN Issue("getBoxModel", Ev("getBoxModel", 0, 0, ""))
                  ELSE Issue("readiness", Ev("waitForReady", 0, 0, ""))
               /\ UNCHANGED aError
  /\ UNCHANGED <<aop, aSel, aOpts, aText, aBox, ax, ay, aReadiness, aKey>>
  /\ UNCHANGED <<connVars, waitVars, readyVars, overlapVars, scanVars>>

\* click: `const { model } = await this.client.DOM.getBoxModel({ nodeId })`,
\* the center, and the branch on ensureInteractive
ActGetBoxModel ==
  /\ apc = "getBoxModel"
  /\ \E b \in ActBoxes :
       LET content == ContentQuad(b)
           x == CenterX(content)
           y == CenterY(content)
       IN /\ aBox' = Some(b)
          /\ ax' = x
          /\ ay' = y
          /\ IF Defined(aOpts) /\ ensureInteractive(Val(aOpts))
             THEN Issue("hover", Ev("mouseMoved", x, y, ""))
             ELSE Issue("readiness", Ev("waitForReady", 0, 0, ""))
  /\ UNCHANGED <<aop, aSel, aOpts, aText, aNode, aReadiness, aKey, aError>>
  /\ UNCHANGED <<connVars, waitVars, readyVars, overlapVars, scanVars>>

\* click: the mouseMoved dispatch resolved
ActHover ==
  /\ apc = "hover"
  /\ Issue("focus", Ev("focus", 0, 0, ""))
  /\ UNCHANGED <<aop, aSel, aOpts, aText, aNode, aBox, ax, ay, aReadiness,
                 aKey, aError>>
  /\ UNCHANGED <<connVars, waitVars, readyVars, overlapVars, scanVars>>

\* click: DOM.focus resolved; the settle timer is started
ActFocus ==
  /\ apc = "focus"
  /\ Issue("settle", Ev("settle", SETTLE_DELAY_MS, 0, ""))
  /\ UNCHANGED <<aop, aSel, aOpts, aText, aNode, aBox, ax, ay, aReadiness,
                 aKey, aError>>
  /\ UNCHANGED <<connVars, waitVars, readyVars, overlapVars, scanVars>>

\* click: the settle timer fired
ActSettle ==
  /\ apc = "settle"
  /\ Issue("readiness", Ev("waitForReady", 0, 0, ""))
  /\ UNCHANGED <<aop, aSel, aOpts, aText, aNode, aBox, ax, ay, aReadiness,
                 aKey, aError>>
  /\ UNCHANGED <<connVars, waitVars, readyVars, overlapVars, scanVars>>

\* waitForReady returned: `if (!readiness.ready)` and the first dispatch
ActReadiness ==
  /\ apc = "readiness"
  /\ \E r \in ReadinessResults :
       /\ aReadiness' = Some(r)
       /\ IF ~r.ready
          THEN ActThrow(StructuredError("ELEMENT_NOT_READY", Some(r.state),
                                     r.timeElapsed,
                                     getBlockingReasons(r.state)))
          ELSE /\ IF aop = "click"
                  THEN Issue("press", Ev("mousePressed", ax, ay, ""))
                  ELSE Issue("typeFocus", Ev("focus", 0, 0, ""))
               /\ UNCHANGED aError
  /\ UNCHANGED <<aop, aSel, aOpts, aText, aNode, aBox, ax, ay, aKey>>
  /\ UNCHANGED <<connVars, waitVars, readyVars, overlapVars, scanVars>>

\* click: mousePressed resolved
ActPress ==
  /\ apc = "press"
  /\ Issue("release", Ev("mouseReleased", ax, ay, ""))
  /\ UNCHANGED <<aop, aSel, aOpts, aText, aNode, aBox, ax, ay, aReadiness,
                 aKey, aError>>
  /\ UNCHANGED <<connVars, waitVars, readyVars, overlapVars, scanVars>>

\* click: mouseReleased resolved; the call returns
ActRelease ==
  /\ apc = "release"
  /\ apc' = "returned"
  /\ UNCHANGED <<aop, aSel, aOpts, aText, aNode, aBox, ax, ay, aReadiness,
                 aKey, aError, aLog>>
  /\ UNCHANGED <<connVars, waitVars, readyVars, overlapVars, scanVars>>

\* type: DOM.focus resolved; the loop over the text starts
ActTypeFocus ==
  /\ apc = "typeFocus"
  /\ IF Len(aText) = 0
     THEN /\ apc' = "returned"
          /\ UNCHANGED <<aKey, aLog>>
     ELSE /\ aKey' = 1
          /\ Issue("keyDown", Ev("keyDown", 0, 0, CharAt(aText, 1)))
  /\ UNCHANGED <<aop, aSel, aOpts, aText, aNode, aBox, ax, ay, aReadiness,
                 aError>>
  /\ UNCHANGED <<connVars, waitVars, readyVars, overlapVars, scanVars>>

\* type: keyDown resolved
ActKeyDown ==
  /\ apc = "keyDown"
  /\ Issue("keyUp", Ev("keyUp", 0, 0, CharAt(aText, aKey)))
  /\ UNCHANGED <<aop, aSel, aOpts, aText, aNode, aBox, ax, ay, aReadiness,
                 aKey, aError>>
  /\ UNCHANGED <<connVars, waitVars, readyVars, overlapVars, scanVars>>

\* type: keyUp resolved; next character, or the call returns
ActKeyUp ==
  /\ apc = "keyUp"
  /\ IF aKey < Len(aText)
     THEN /\ aKey' = aKey + 1
          /\ Issue("keyDown", Ev("keyDown", 0, 0, CharAt(aText, aKey + 1)))
     ELSE /\ apc' = "returned"
          /\ UNCHANGED <<aKey, aLog>>
  /\ UNCHANGED <<aop, aSel, aOpts, aText, aNode, aBox, ax, ay, aReadiness,
                 aError>>
  /\ UNCHANGED <<connVars, waitVars, readyVars, overlapVars, scanVars>>

\* the driver call the call is suspended at rejects: `catch (error)`
ActDriverRejects ==
  /\ apc \in {"getDocument", "querySelector", "getBoxModel", "hover",
              "focus", "press", "release", "typeFocus", "keyDown", "keyUp"}
  /\ ActThrow(StructuredError("DRIVER", Undefined, 0, <<>>))
  /\ UNCHANGED <<aop, aSel, aOpts, aText, aNode, aBox, ax, ay, aReadiness,
                 aKey>>
  /\ UNCHANGED <<connVars, waitVars, readyVars, overlapVars, scanVars>>

ActNext ==
  \/ ActCall
  \/ ActConnected
  \/ ActGetDocument
  \/ ActQuerySelector
  \/ ActGetBoxModel
  \/ ActHover
  \/ ActFocus
  \/ ActSettle
  \/ ActReadiness
  \/ ActPress
  \/ ActRelease
  \/ ActTypeFocus
  \/ ActKeyDown
  \/ ActKeyUp
  \/ ActDriverRejects

SpecAct == Init /\ [][ActNext]_vars

\* the synchronous heads of waitFor, click and type: argument validation
EntryNext ==
  \/ WaitForCall
  \/ ActCall

SpecEntry == Init /\ [][EntryNext]_vars

(***************************************************************************)
(* The text probe of WaitService.waitFor: the script it evaluates          *)
(***************************************************************************)

\* String.prototype.includes on sequences of characters
includes(body, find) ==
  \E i \in 0..(Len(body) - Len(find)) :
    SubSeq(body, i + 1, i + Len(find)) = find

\* the probe is due: the script is built with JSON.stringify(options.text)
\* and sent; options.text is truthy (not empty)
ScanCall ==
  /\ spc = "idle"
  /\ \E m \in 0..MaxBodyLen, n \in 1..MaxFindLen :
     \E body \in [1..m -> {"s", "S", "a"}], find \in [1..n -> {"s", "S", "a"}] :
       /\ bodyText' = body
       /\ textToFind' = find
  /\ spc' = "evaluate"
  /\ UNCHANGED scanFound
  /\ UNCHANGED <<connVars, waitVars, readyVars, overlapVars, actVars>>

\* the script runs in the page: `document.body.innerText.includes(textToFind)`
ScanEvaluate ==
  /\ spc = "evaluate"
  /\ scanFound' = Some(includes(bodyText, textToFind))
  /\ spc' = "done"
  /\ UNCHANGED <<bodyText, textToFind>>
  /\ UNCHANGED <<connVars, waitVars, readyVars, overlapVars, actVars>>

ScanNext ==
  \/ ScanCall
  \/ ScanEvaluate

SpecScan == Init /\ [][ScanNext]_vars

(***************************************************************************)
(* waitForReady: properties                                                *)
(***************************************************************************)

\* C3 (as claimed): every ReadinessResult returned by waitForReady has
\* ready = (state.visible AND state.enabled AND state.stable).
C3_ReadyIsConjunction ==
  rpc = "returned" =>
    (Val(rresult).ready <=>
       (Val(rresult).state.visible /\ Val(rresult).state.enabled
        /\ Val(rresult).state.stable))

(***************************************************************************)
(* waitFor: properties                                                     *)
(***************************************************************************)

\* WaitService.waitFor returned or threw
WaitEnded == wpc \in {"returned", "thrown"}

ConditionKinds == {"element", "text", "url", "networkIdle"}

\* C1: a waitFor call that requests networkIdle invokes Network.disable()
\* exactly once, whether it returns success, returns on timeout or throws;
\* a call that does not request it never invokes it.
C1_DisableExactlyOnce ==
  /\ disableCalls <= 1
  /\ WaitEnded =>
       disableCalls = (IF opts.networkIdle # Undefined THEN 1 ELSE 0)
  /\ opts.networkIdle = Undefined => disableCalls = 0

\* the call threw because Network.enable() failed, and disabled once
C1_Witness ==
  /\ wpc = "thrown"
  /\ opts.networkIdle = Some(0)
  /\ enableCalls = 1 /\ ~subscribed
  /\ disableCalls = 1

\* C9: in every WaitOutcome success is true iff every condition kind present
\* in conditions is true.
C9_SuccessIffAllTrue ==
  wpc = "returned" =>
    (Val(result).success <=>
       \A k \in ConditionKinds :
         Defined(Val(result).conditions[k]) =>
           Val(Val(result).conditions[k]) = TRUE)

C9_Witness ==
  /\ wpc = "returned"
  /\ Val(result).success
  /\ Val(result).conditions.element = Some(TRUE)
  /\ Val(result).conditions.networkIdle = Some(TRUE)
  /\ Val(result).conditions.text = Undefined
  /\ sleeps >= 1

\* C10: when the poll loop ends on its deadline and no driver call failed,
\* waitFor does not throw: it returns success false with the condition
\* flags, actualState and timeElapsed >= the effective timeout.
C10_TimeoutIsAnOutcome ==
  (deadlineReached /\ ~driverFailed) =>
    /\ wpc # "thrown" /\ completion # "throw"
    /\ wpc = "returned" =>
         /\ Defined(result)
         /\ Val(result).success = FALSE
         /\ Val(result).conditions = conditions
         /\ \E k \in ConditionKinds : Val(result).conditions[k] = Some(FALSE)
         /\ Val(result).actualState = actualState
         /\ Defined(Val(result).actualState.currentUrl)
         /\ Val(result).timeElapsed >= timeout

C10_Witness ==
  /\ wpc = "returned"
  /\ deadlineReached /\ ~driverFailed
  /\ opts.timeout = Some(200)
  /\ Val(result).conditions.element = Some(FALSE)
  /\ Val(result).conditions.networkIdle = Some(TRUE)
  /\ Val(result).timeElapsed >= 200

(***************************************************************************)
(* Connection lifecycle: properties                                        *)
(***************************************************************************)

\* the caller is inside its retry loop (a reconnect sequence is running)
InSequence(c) == pc[c] \in ConnectPcs \cup {"backoff"}

\* the call is over
Ended(c) == pc[c] \in {"returned", "thrown"}

\* C2 (as claimed): for one disconnect event the concurrent callers cause one
\* attempt sequence, at most 5 connect() invocations in all: no call makes
\* more than 5, and a caller that waited on a reconnect in flight makes none
\* of its own unless a further disconnect event was delivered meanwhile.
C2_OneSequencePerDisconnect ==
  \A c \in Callers :
    /\ connects[c] <= maxRetries
    /\ (waited[c] /\ ~discSince[c]) => connects[c] = 0

\* C4: at most one attempt sequence is in flight, it runs with the flag set,
\* and a caller that found no handle and the flag set has slept instead of
\* invoking connect().
C4_OneSequenceInFlight ==
  /\ Cardinality({c \in Callers : InSequence(c)}) <= 1
  /\ \A c \in Callers : InSequence(c) => reconnecting
  /\ \A c \in Callers :
       (pc[c] # "idle" /\ entryNull[c] /\ entryFlag[c]) => waited[c]
  /\ \A c \in Callers : pc[c] = "waiting" => connects[c] = 0

C4_Witness ==
  \E c, d \in Callers :
    /\ InSequence(c) /\ attempt[c] >= 2
    /\ pc[d] = "waiting" /\ entryFlag[d]

\* C5 (as claimed): the handle is non-null only if the connect() that
\* created it ran to completion, and no ensureConnected() call returns while
\* a connect() is in progress.
C5_NeverPartiallyValid ==
  /\ client # NoHandle => client = complete
  /\ \A c \in Callers : ~retInConnect[c]

\* C6: a call that did not wait on another one invokes connect() at most 5
\* times with one 2000 ms backoff between consecutive attempts: success on
\* attempt k returns after k invocations and k-1 sleeps, five failures throw
\* after 5 invocations and 4 sleeps.
C6_AttemptsAndBackoff ==
  \A c \in Callers :
    /\ connects[c] <= 5
    /\ (pc[c] = "returned" /\ via[c] = "reconnected") =>
         /\ connects[c] = attempt[c]
         /\ connects[c] \in 1..5
         /\ backoffMs[c] = (connects[c] - 1) * 2000
    /\ pc[c] = "thrown" =>
         /\ connects[c] = 5
         /\ backoffMs[c] = 4 * 2000
    /\ InSequence(c) =>
         backoffMs[c] = (connects[c] - 1) * 2000

C6_Witness ==
  \E c \in Callers :
    /\ ~waited[c]
    /\ pc[c] = "returned" /\ via[c] = "reconnected"
    /\ connects[c] = 5 /\ backoffMs[c] = 8000

C8_Immediate == disconnects' > disconnects => client' = NoHandle

\* C8, second half: a call made while the handle is absent does not return
\* before a new handle was created, and unless a reconnect was already in
\* flight it invokes connect() itself.
C8_NextCall ==
  \A c \in Callers :
    (pc[c] # "idle" /\ entryNull[c]) =>
      /\ pc[c] = "returned" => (fresh[c] /\ via[c] # "none")
      /\ waited[c] \/ connects[c] >= 1
      /\ ~entryFlag[c] => connects[c] >= 1

\* C8: a disconnect signal makes the handle absent at once and the next
\* ensureConnected() call starts a reconnect instead of returning on the
\* already-connected path.
C8_DisconnectThenReconnect == [][C8_Immediate]_vars /\ []C8_NextCall

C8_Witness ==
  \E c, d \in Callers :
    /\ c # d
    /\ disconnects = 1
    /\ pc[d] = "returned" /\ via[d] = "reconnected" /\ ~discSince[d]
    /\ pc[c] = "returned" /\ via[c] = "reconnected" /\ ~discSince[c]
    /\ entryNull[c] /\ ~entryFlag[c] /\ ~waited[c]

(***************************************************************************)
(* waitFor: condition kinds, empty requests, probe failures                *)
(***************************************************************************)

\* WaitService.waitFor was entered and has not been left
WaitEntered == wpc \notin {"idle", "rejected"}

\* C11: a condition kind that was not part of the request is undefined in
\* conditions, never false, and never prevents success: a WaitOutcome with
\* success false has a requested kind whose flag is false.
C11_AbsentKindsIgnored ==
  /\ WaitEntered =>
       \A k \in ConditionKinds :
         opts[k] = Undefined => conditions[k] = Undefined
  /\ wpc = "returned" =>
       /\ \A k \in ConditionKinds :
            opts[k] = Undefined => Val(result).conditions[k] = Undefined
       /\ ~Val(result).success =>
            \E k \in ConditionKinds :
              /\ Defined(opts[k])
              /\ Val(result).conditions[k] = Some(FALSE)

\* only text was requested, and the call returned success
C11_Witness ==
  /\ wpc = "returned"
  /\ opts.text = Some("Saved")
  /\ opts.element = Undefined /\ opts.url = Undefined
  /\ opts.networkIdle = Undefined
  /\ Val(result).success
  /\ Val(result).conditions.text = Some(TRUE)
  /\ Val(result).conditions.element = Undefined
  /\ Val(result).conditions.networkIdle = Undefined

\* the call names no condition kind
NoConditionsRequested == \A k \in ConditionKinds : opts[k] = Undefined

\* C12: waitFor called with no conditions reports success true in its first
\* poll iteration: no poll-interval sleep, no Network.enable(), no
\* Network.disable(), the deadline is never reached, and the call returns
\* success true unless the driver fails while actualState is read.
C12_NoConditionsSucceedAtOnce ==
  (WaitEntered /\ NoConditionsRequested) =>
    /\ sleeps = 0 /\ enableCalls = 0 /\ disableCalls = 0
    /\ ~deadlineReached
    /\ wpc \in {"asUrl", "returned", "thrown"}
    /\ wpc = "asUrl" => verdict
    /\ wpc = "returned" => Val(result).success
    /\ wpc = "thrown" => driverFailed

\* waitFor({timeout: 0}) returned success
C12_Witness ==
  /\ wpc = "returned"
  /\ NoConditionsRequested
  /\ opts.timeout = Some(0)
  /\ Val(result).success
  /\ sleeps = 0 /\ enableCalls = 0 /\ disableCalls = 0

\* positions of the call at which a condition probe of the poll loop is
\* awaited
ProbePcs == {"getDocument", "querySelector", "textEval", "urlEval"}

\* C16 (as claimed): a failure of a single condition probe inside the poll
\* loop never ends the loop with an error; the step that completes a probe
\* never takes the call to its catch block.
C16_ProbeFailureContinues ==
  [][(wpc \in ProbePcs => completion' # "throw")]_vars

\* C13 (as claimed): the callbacks a waitFor call registered for network
\* events do not outlive the call: once it has returned or thrown, none of
\* them is registered on the driver any more.
C13_SubscriptionScoped == WaitEnded => netListeners = 0

\* C15 (as claimed): a waitFor call returns success true only if every
\* requested condition holds at one instant of the final poll iteration;
\* the call has evidence for a condition at such an instant only if it
\* probed the condition in that iteration, so no flag of a successful
\* outcome was carried over from an earlier iteration.
C15_SimultaneousInFinalIteration ==
  (wpc = "returned" /\ Val(result).success) => carried = {}

(***************************************************************************)
(* checkElementState and waitForReady: faults, timing, fast path           *)
(***************************************************************************)

\* C17 (as claimed): a driver exception or evaluation fault during the first
\* probe or during the stability probe makes checkElementState return the
\* not-found state {visible: false, enabled: false, stable: false}.
C17_FaultGivesNotFound ==
  rfault => (~rstate.visible /\ ~rstate.enabled /\ ~rstate.stable)

\* C18 (as claimed): for a selector that is not ready at any check,
\* waitForReady(selector, T) returns ready false with timeElapsed >= T and
\* timeElapsed < T + poll interval + stability window, when every driver
\* call resolves at once and every poll timer fires on time.
C18_TimeoutWindow ==
  (/\ rpc = "returned"
   /\ ~Val(rresult).ready
   /\ ~isReady(Val(rresult).state)
   /\ rslow = 0 /\ ~rlate) =>
    /\ Val(rresult).timeElapsed >= rtimeout
    /\ Val(rresult).timeElapsed <
         rtimeout + POLL_INTERVAL_MS + STABILITY_CHECK_MS

\* the step in which the first checkElementState of the call returns
FirstCheckReturns ==
  /\ rsite = "initial"
  /\ rpc \in {"getDocument", "querySelector", "evaluate", "stabilityEval"}
  /\ (rpc' = "returned" \/ rsite' # "initial")

\* C19: if the first readiness probe reports visible, enabled and stable,
\* waitForReady returns ready true after exactly one checkElementState
\* invocation and without a poll-interval sleep.
C19_FastPath ==
  [][(FirstCheckReturns
      /\ rstate'.visible /\ rstate'.enabled /\ rstate'.stable) =>
       (/\ rpc' = "returned"
        /\ Val(rresult').ready
        /\ Val(rresult').state = rstate'
        /\ rchecks' = 1
        /\ rsleeps' = 0)]_vars

C19_Witness ==
  /\ rpc = "returned"
  /\ rchecks = 1 /\ rsleeps = 0
  /\ Val(rresult).ready
  /\ rstate.visible /\ rstate.enabled /\ rstate.stable

\* C20: the state checkElementState returns has stable true only if its
\* second sample observed a bounding box, which was compared with the first;
\* if the element is not found on the second sample stable is false.
C20_StableNeedsSecondSample ==
  /\ rstate.stable => rsecond
  /\ rstate.stable =>
       \E newBox \in Boxes : BoxStable(newBox, Val(rstate.boundingBox))

\* the element was seen by the first probe and was gone at the second sample
C20_Witness ==
  /\ rchecks >= 1
  /\ Defined(rstate.boundingBox)
  /\ rstate.visible /\ rstate.enabled
  /\ ~rsecond /\ ~rfault
  /\ ~rstate.stable

(***************************************************************************)
(* waitFor: overlapping calls                                              *)
(***************************************************************************)

\* C14 (as claimed): waitFor calls with networkIdle that overlap on one
\* connection are safe: the cleanup of a call that finishes first does not
\* stop network events from reaching a call still in progress, so no call
\* reports networkIdle satisfied while requests it was not told of occurred
\* within its idle window.
C14_OverlapSafe ==
  \A w \in Waiters : oMissed[w] = Undefined /\ ~falseIdle[w]

(***************************************************************************)
(* Connection lifecycle: services and replaced handles                     *)
(***************************************************************************)

\* C25 (as claimed): whenever ensureConnected() returns normally, the
\* service instances are bound to the current live handle, never to a
\* handle that was disconnected and replaced.
C25_ServicesBoundToLiveHandle ==
  [][(\A c \in Callers :
        (pc[c] # "returned" /\ pc'[c] = "returned") =>
          (client' # NoHandle /\ svc' = client'))]_vars

\* C26 (as claimed): a disconnect signal emitted by a handle that is no
\* longer the current handle leaves the current live handle unchanged.
C26_StaleDisconnectIgnored == ~staleNulled

(***************************************************************************)
(* waitFor: order of the steps, probes within an iteration, actualState    *)
(***************************************************************************)

\* the condition kind whose probe the call is awaiting
Outstanding ==
  CASE wpc \in {"getDocument", "querySelector"} -> {"element"}
    [] wpc = "textEval" -> {"text"}
    [] wpc = "urlEval" -> {"url"}
    [] OTHER -> {}

\* the kinds a poll iteration has to probe: requested, flag not yet true
DueProbes ==
  {k \in {"element", "text", "url"} : conditions[k] = Some(FALSE)}

\* C28 (as claimed): within one poll iteration the probes run concurrently:
\* while the element probe is outstanding, the text and URL probes that the
\* iteration has to make are outstanding as well.
C28_ProbesConcurrent ==
  wpc \in {"getDocument", "querySelector"} => DueProbes \subseteq Outstanding

\* positions of the call inside the poll loop
LoopPcs == ProbePcs \cup {"sleep"}

C30_ActualStateAgrees ==
  (wpc = "returned" /\ Val(result).success) =>
    /\ Val(result).conditions.element = Some(TRUE) =>
         Val(result).actualState.elementFound
    /\ Val(result).conditions.text = Some(TRUE) =>
         Val(result).actualState.textFound

(***************************************************************************)
(* click / type: properties                                                *)
(***************************************************************************)

\* C21: a click with ensureInteractive that succeeds has handed the driver,
\* after the selector resolution, exactly: mouseMoved at the center of the
\* box, focus, the 50 ms settle timer, the readiness wait, mousePressed,
\* mouseReleased, in this order; in every state of such a click the
\* readiness wait is issued only after the focus, and mousePressed only
\* after the readiness wait returned ready.
C21_InteractiveOrder ==
  (aop = "click" /\ aOpts = Some([ensureInteractive |-> Some(TRUE)])) =>
    /\ apc = "returned" =>
         /\ Len(aLog) = 9
         /\ [i \in 1..9 |-> aLog[i].type] =
              <<"getDocument", "querySelector", "getBoxModel", "mouseMoved",
                "focus", "settle", "waitForReady", "mousePressed",
                "mouseReleased">>
         /\ 2 * aLog[4].x = 2 * Val(aBox).x + Val(aBox).width
         /\ 2 * aLog[4].y = 2 * Val(aBox).y + Val(aBox).height
         /\ aLog[6].x = 50
    /\ \A i \in 1..Len(aLog) :
         /\ aLog[i].type = "waitForReady" =>
              \E j \in 1..(i - 1) : aLog[j].type = "focus"
         /\ aLog[i].type = "mousePressed" =>
              /\ \E j \in 1..(i - 1) : aLog[j].type = "waitForReady"
              /\ Defined(aReadiness) /\ Val(aReadiness).ready

C21_Witness ==
  /\ aop = "click"
  /\ aOpts = Some([ensureInteractive |-> Some(TRUE)])
  /\ apc = "returned"
  /\ aLog[9].type = "mouseReleased"

\* C22: a type call that returns has dispatched one focus and then, for a
\* text of n characters, the 2n key events down(c1), up(c1), ..., down(cn),
\* up(cn); for the empty text the focus alone.
C22_KeyEventsOfText ==
  (aop = "type" /\ apc = "returned") =>
    LET k == SelectSeq(aLog, LAMBDA e : e.type \in {"focus", "keyDown",
                                                     "keyUp"})
    IN /\ Len(k) = 1 + 2 * Len(aText)
       /\ k[1].type = "focus"
       /\ \A i \in 1..Len(aText) :
            /\ k[2 * i] = Ev("keyDown", 0, 0, aText[i])
            /\ k[2 * i + 1] = Ev("keyUp", 0, 0, aText[i])

C22_Witness ==
  /\ aop = "type"
  /\ apc = "returned"
  /\ Len(aText) = 2
  /\ aText[1] # aText[2]
  /\ Len(aLog) = 8

\* C23: when the selector resolves to no element, the call has failed with
\* ELEMENT_NOT_FOUND and the two requests of the selector resolution are
\* the only ones it ever issued: no box-model query, no readiness wait, no
\* pointer, focus or key event.
C23_NotFoundImmediate ==
  (Defined(aNode) /\ Val(aNode) = 0) =>
    /\ apc = "thrown"
    /\ Defined(aError)
    /\ Val(aError).error = "ELEMENT_NOT_FOUND"
    /\ [i \in 1..Len(aLog) |-> aLog[i].type] = <<"getDocument", "querySelector">>
    /\ aReadiness = Undefined

C23_Witness ==
  /\ aop = "click"
  /\ Defined(aNode)
  /\ Val(aNode) = 0
  /\ apc = "thrown"

C27_PressAtConfirmedBox ==
  \A i \in 1..Len(aLog) :
    aLog[i].type \in {"mousePressed", "mouseReleased"} =>
      LET b == Val(Val(aReadiness).state.boundingBox)
      IN /\ 2 * aLog[i].x = 2 * b.x + b.width
         /\ 2 * aLog[i].y = 2 * b.y + b.height

C34_StableWithinOnePixel ==
  rsecond =>
    LET a == Val(rstate.boundingBox)
        b == Val(rsample)
        Near(u, v) == u - v < 10 /\ v - u < 10
    IN rstate.stable <=> /\ Near(a.x, b.x)
                         /\ Near(a.y, b.y)
                         /\ Near(a.width, b.width)
                         /\ Near(a.height, b.height)

C34_Witness ==
  /\ rsecond
  /\ rstate.stable
  /\ Val(rsample) # Val(rstate.boundingBox)
  /\ Val(rsample).x - Val(rstate.boundingBox).x = 4

\* C31 (as claimed): the step that sets the networkIdle flag of a call, at
\* time t, finds no request event observed by the call within the
\* networkIdle milliseconds before t, and t is at least networkIdle
\* milliseconds after the call registered its callbacks.
C31_IdleAfterQuietWindow ==
  [][((wpc # "idle" /\ conditions.networkIdle # Some(TRUE)
       /\ conditions'.networkIdle = Some(TRUE)) =>
        /\ now' - lastNetworkActivity' >= Val(opts.networkIdle)
        /\ Defined(subscribedAt')
        /\ now' - Val(subscribedAt') >= Val(opts.networkIdle))]_vars

\* C32 (as claimed): a call that passed validation uses the timeout it was
\* given as its deadline, the 5000 ms default only when the timeout is
\* omitted, and never more than 30000 ms; with timeout 0 it runs no
\* poll-interval sleep, and fails unless its conditions hold at once.
C32_AcceptedTimeoutIsDeadline ==
  WaitEntered =>
    /\ timeout = IF Defined(opts.timeout) THEN Val(opts.timeout) ELSE 5000
    /\ timeout <= 30000
    /\ opts.timeout = Some(0) => sleeps = 0

\* C37: when every timer fires and every connect() invocation completes,
\* every ensureConnected() call eventually returns or throws, also the
\* calls that found a reconnect in flight and re-check after each delay.
C37_EveryCallEnds ==
  \A c \in Callers : (pc[c] # "idle") ~> Ended(c)

C37_Witness ==
  \E c \in Callers : /\ waited[c]
                      /\ Ended(c)
                      /\ connects[c] > 0

\* C33 (as claimed): the text probe finds the text exactly when the page
\* text contains the search string as a substring, letter case ignored.
C33_CaseInsensitiveSubstring ==
  spc = "done" =>
    LET lower(ch) == IF ch = "S" THEN "s" ELSE ch
        fold(t) == [i \in 1..Len(t) |-> lower(t[i])]
    IN scanFound = Some(includes(fold(bodyText), fold(textToFind)))

\* C36: a waitFor call with an empty or unbalanced selector or a timeout
\* outside 0..30000, and a click or type call with such a selector, is
\* rejected before it awaits ensureConnected: it issues no driver call, and
\* the step that rejects it leaves the connection handle, the reconnecting
\* flag and every connect() count unchanged.
C36_RejectedBeforeConnect ==
  /\ [](/\ (/\ wpc # "idle"
             /\ \/ /\ Defined(opts.element)
                   /\ Val(opts.element) \in {<<>>, <<"a", "[">>}
                \/ /\ Defined(opts.timeout)
                   /\ (Val(opts.timeout) < 0 \/ Val(opts.timeout) > 30000))
             => (wpc = "rejected" /\ enableCalls = 0)
        /\ (aop # "none" /\ aSel \in {<<>>, <<"a", "[">>})
             => (apc = "rejected" /\ aLog = <<>>))
  /\ [][((wpc' = "rejected" \/ apc' = "rejected")
          => UNCHANGED <<client, svc, reconnecting, connects, pc>>)]_vars

C36_Witness ==
  /\ wpc = "rejected"
  /\ opts.timeout = Some(30001)
  /\ opts.element = Some(<<"#", "a">>)
  /\ apc = "rejected"
  /\ aop = "type"
  /\ aSel = <<>>

====
